---- MODULE Spec2Model ----
(***************************************************************************)
(* Request-time negotiation engine of static-serve                         *)
(* (src/static-serve/src/lib.rs): the extractors AcceptEncoding and        *)
(* IfNoneMatch, and the handler body static_inner, applied to one prepared *)
(* asset descriptor; and the build-time preparation of the descriptors by  *)
(* embed_assets! and embed_asset! (src/static-serve-macro/src/lib.rs).     *)
(*                                                                         *)
(* Header values are byte strings, modelled as sequences of byte codes.    *)
(* Option<T> is modelled as a sequence of length 0 (None) or 1 (Some).     *)
(***************************************************************************)
EXTENDS Integers, Sequences, FiniteSets, TLC

VARIABLES
    desc,       \* the descriptor the route was registered with (static data)
    pc,         \* position of the request in static_inner
    req,        \* the request's header values, as received
    extracted,  \* what the extractors handed to the handler
    resp_base,  \* local resp_base of static_inner
    selected,   \* locals (selected_body, optional_content_encoding)
    range_arg,  \* arguments of the call of serve_file_with_http_range, if made
    resp,       \* the response returned, if any
    visited,    \* history: the positions this request went through
    outcomes,   \* history: number of responses produced for this request
    fs,         \* build: the filesystem, absolute path -> node
    oracle,     \* build: what the codecs and the digest give for each content
    opts,       \* build: the macro's arguments
    phase,      \* build: position of the macro expansion
    valid,      \* build: the validated ignore and cache-busted paths
    todo,       \* build: entries of the glob not yet visited
    routes,     \* build: the routes emitted so far
    error,      \* build: the error the expansion ended with, if any
    table,      \* serving: the router, route path -> descriptor
    inflight    \* serving: the requests being handled, each with its locals

\* one request against one descriptor
reqVars == <<desc, pc, req, extracted, resp_base, selected, range_arg, resp,
             visited, outcomes>>

\* the macro expansion
buildVars == <<fs, oracle, opts, phase, valid, todo, routes, error>>

\* concurrent requests against a router
concVars == <<table, inflight>>

vars == <<reqVars, buildVars, concVars>>

\* no macro expansion is modelled
NoBuild ==
    /\ fs = <<>>
    /\ oracle = <<>>
    /\ opts = <<>>
    /\ phase = "off"
    /\ valid = <<>>
    /\ todo = {}
    /\ routes = <<>>
    /\ error = <<>>

\* no router is modelled
NoRouter == table = <<>> /\ inflight = <<>>

-----------------------------------------------------------------------------
(* Bounds of the model *)

\* longest raw body, in bytes
MaxBody == 2
\* largest offset or length written in a Range header
MaxPos == 1
\* longest Accept-Encoding value, in tokens of AETokens
MaxTokens == 3
\* the longest raw file and the longest codec output of the threshold cases
MaxRaw == 11
MaxCompressed == 10

-----------------------------------------------------------------------------
(* Option *)

None == <<>>
Some(x) == <<x>>
IsSome(o) == Len(o) = 1
IsNone(o) == Len(o) = 0
Unwrap(o) == o[1]

Min(a, b) == IF a < b THEN a ELSE b
Max(a, b) == IF a < b THEN b ELSE a

\* all sequences over S of length 0..n
SeqsUpTo(S, n) == UNION {[1..k -> S] : k \in 0..n}

-----------------------------------------------------------------------------
(* Byte strings *)

\* str::contains: needle occurs in hay as a contiguous run of bytes
Contains(hay, needle) ==
    \E i \in 1..(Len(hay) - Len(needle) + 1) :
        SubSeq(hay, i, i + Len(needle) - 1) = needle

\* HeaderValue::to_str succeeds iff every byte is visible ASCII, space or tab
IsVisibleAscii(b) == (b >= 32 /\ b < 127) \/ b = 9
to_str(value) ==
    IF \A i \in 1..Len(value) : IsVisibleAscii(value[i])
    THEN Some(value) ELSE None

\* a quoted string without its surrounding quotes
Unquote(e) == SubSeq(e, 2, Len(e) - 1)

\* "gzip" and "zstd"
GzipToken == <<103, 122, 105, 112>>
ZstdToken == <<122, 115, 116, 100>>

-----------------------------------------------------------------------------
(* Extractors *)

\* variant: a value that is not valid text is read lossily, its other bytes kept
AcceptEncoding_lossy(hdr) ==
    LET text == IF IsSome(hdr)
                THEN SelectSeq(Unwrap(hdr), IsVisibleAscii)
                ELSE <<>>
    IN  [gzip |-> Contains(text, GzipToken),
         zstd |-> Contains(text, ZstdToken)]

\* AcceptEncoding::from_request_parts; hdr is parts.headers.get(ACCEPT_ENCODING)
AcceptEncoding_from_request_parts(hdr) ==
    LET text == IF IsSome(hdr) /\ IsSome(to_str(Unwrap(hdr)))
                THEN Unwrap(to_str(Unwrap(hdr)))
                ELSE <<>>
    IN  [gzip |-> Contains(text, GzipToken),
         zstd |-> Contains(text, ZstdToken)]

\* IfNoneMatch::from_request_parts; hdr is parts.headers.get(IF_NONE_MATCH)
IfNoneMatch_from_request_parts(hdr) == hdr

\* variant: the comparison ignores the quotes around the etag
matches_unquoted(if_none_match, etag) ==
    IsSome(if_none_match)
    /\ (Unwrap(if_none_match) = etag \/ Unwrap(if_none_match) = Unquote(etag))

\* IfNoneMatch::matches
matches(if_none_match, etag) ==
    IsSome(if_none_match) /\ Unwrap(if_none_match) = etag

-----------------------------------------------------------------------------
(* Responses.  A response is [status, headers, body]; headers maps each    *)
(* header name to an Option of its value.  A tuple (parts..., inner) is    *)
(* turned into a response by building inner's response and then inserting  *)
(* each part's headers in order, an insert replacing an earlier value.     *)

HeaderNames == {"content-type", "etag", "vary", "cache-control",
                "accept-ranges", "content-encoding", "content-range"}

EmptyHeaders == [h \in HeaderNames |-> None]

\* HeaderMap::insert of one (name, value) pair
Insert(headers, part) == [headers EXCEPT ![part[1]] = Some(part[2])]

RECURSIVE ApplyParts(_, _)
ApplyParts(headers, parts) ==
    IF Len(parts) = 0 THEN headers
    ELSE ApplyParts(Insert(headers, Head(parts)), Tail(parts))

\* (parts, inner).into_response()
into_response(parts, inner) ==
    [inner EXCEPT !.headers = ApplyParts(@, parts)]

\* StatusCode::into_response: the status, no header, an empty body
StatusCodeResponse(status) ==
    [status |-> status, headers |-> EmptyHeaders, body |-> <<>>]

\* Bytes::into_response: 200 with the bytes and a default content type
BytesResponse(body) ==
    [status  |-> 200,
     headers |-> Insert(EmptyHeaders,
                        <<"content-type", "application/octet-stream">>),
     body    |-> body]

-----------------------------------------------------------------------------
(* Range serving (the range_requests collaborator called at line 227).     *)
(* An HttpRange is <<"StartingPoint", s>>, <<"Range", s, e>> or            *)
(* <<"Suffix", n>>, offsets counted from 0 and e inclusive.                *)

\* the inclusive window <<lo, hi>> of a range over size bytes, None if the
\* range selects nothing
RangeWindow(r, size) ==
    CASE r[1] = "StartingPoint" ->
            IF r[2] < size THEN Some(<<r[2], size - 1>>) ELSE None
      [] r[1] = "Range" ->
            IF r[2] < size THEN Some(<<r[2], Min(r[3], size - 1)>>) ELSE None
      [] r[1] = "Suffix" ->
            IF r[2] > 0 /\ size > 0
            THEN Some(<<Max(size - r[2], 0), size - 1>>) ELSE None

\* serve_file_with_http_range(body, http_range): Ok(BodyRange) or
\* Err(UnsatisfiableRange)
serve_file_with_http_range(body, http_range) ==
    IF IsNone(http_range)
    THEN [ok |-> TRUE, partial |-> FALSE, body |-> body]
    ELSE LET w == RangeWindow(Unwrap(http_range), Len(body))
         IN  IF IsSome(w)
             THEN [ok |-> TRUE, partial |-> TRUE,
                   body |-> SubSeq(body, Unwrap(w)[1] + 1, Unwrap(w)[2] + 1),
                   content_range |-> <<Unwrap(w)[1], Unwrap(w)[2], Len(body)>>]
             ELSE [ok |-> FALSE, size |-> Len(body)]

\* BodyRange::into_response: 206 with content-range, or the full body
BodyRangeResponse(r) ==
    IF r.partial
    THEN [BytesResponse(r.body) EXCEPT
            !.status = 206,
            !.headers = Insert(@, <<"content-range", r.content_range>>)]
    ELSE BytesResponse(r.body)

\* UnsatisfiableRange::into_response: 416 with content-range: bytes */size
UnsatisfiableResponse(r) ==
    [status  |-> 416,
     headers |-> Insert(EmptyHeaders, <<"content-range", <<"*", r.size>>>>),
     body    |-> <<>>]

-----------------------------------------------------------------------------
(* static_inner, piece by piece *)

\* variant: an asset that is not cache-busted is marked no-cache
optional_cache_control_no_cache(cache_busted) ==
    IF cache_busted
    THEN << <<"cache-control", "public, max-age=31536000, immutable">> >>
    ELSE << <<"cache-control", "no-cache">> >>

\* optional_cache_control (lines 180-187)
optional_cache_control(cache_busted) ==
    IF cache_busted
    THEN << <<"cache-control", "public, max-age=31536000, immutable">> >>
    ELSE <<>>

\* the first resp_base (lines 189-196)
base_headers(d) ==
    << <<"content-type", d.content_type>>,
       <<"etag", d.etag>>,
       <<"vary", "Accept-Encoding">> >>
    \o optional_cache_control(d.cache_busted)

\* the 304 returned at line 199
not_modified_response(base) ==
    into_response(base, StatusCodeResponse(304))

\* variant: accept-ranges is left out
ranged_base_headers_without(base) == base

\* the second resp_base (lines 202-205): accept-ranges, then the first
ranged_base_headers(base) ==
    << <<"accept-ranges", "bytes">> >> \o base

\* variant: the match arms do not look at http_range
select_body_any_range(d, accept_encoding, http_range) ==
    IF accept_encoding.zstd /\ IsSome(d.body_zst)
    THEN [body     |-> Unwrap(d.body_zst),
          encoding |-> << <<"content-encoding", "zstd">> >>]
    ELSE IF accept_encoding.gzip /\ IsSome(d.body_gz)
    THEN [body     |-> Unwrap(d.body_gz),
          encoding |-> << <<"content-encoding", "gzip">> >>]
    ELSE [body |-> d.body, encoding |-> <<>>]

\* variant: the gzip arm comes first
select_body_gzip_first(d, accept_encoding, http_range) ==
    IF accept_encoding.gzip /\ IsSome(d.body_gz) /\ IsNone(http_range)
    THEN [body     |-> Unwrap(d.body_gz),
          encoding |-> << <<"content-encoding", "gzip">> >>]
    ELSE IF accept_encoding.zstd /\ IsSome(d.body_zst) /\ IsNone(http_range)
    THEN [body     |-> Unwrap(d.body_zst),
          encoding |-> << <<"content-encoding", "zstd">> >>]
    ELSE [body |-> d.body, encoding |-> <<>>]

\* variant: the gzip arm does not ask whether the client accepts gzip
select_body_gzip_unasked(d, accept_encoding, http_range) ==
    IF accept_encoding.zstd /\ IsSome(d.body_zst) /\ IsNone(http_range)
    THEN [body     |-> Unwrap(d.body_zst),
          encoding |-> << <<"content-encoding", "zstd">> >>]
    ELSE IF IsSome(d.body_gz) /\ IsNone(http_range)
    THEN [body     |-> Unwrap(d.body_gz),
          encoding |-> << <<"content-encoding", "gzip">> >>]
    ELSE [body |-> d.body, encoding |-> <<>>]

\* the match of lines 206-220: (selected_body, optional_content_encoding)
select_body(d, accept_encoding, http_range) ==
    IF accept_encoding.zstd /\ IsSome(d.body_zst) /\ IsNone(http_range)
    THEN [body     |-> Unwrap(d.body_zst),
          encoding |-> << <<"content-encoding", "zstd">> >>]
    ELSE IF accept_encoding.gzip /\ IsSome(d.body_gz) /\ IsNone(http_range)
    THEN [body     |-> Unwrap(d.body_gz),
          encoding |-> << <<"content-encoding", "gzip">> >>]
    ELSE [body |-> d.body, encoding |-> <<>>]

\* variant: no check for an empty body
skips_range_serving_never(sel) == FALSE

\* whether lines 222-225 return before range serving is called
skips_range_serving(sel) == Len(sel.body) = 0

\* the full (empty) response of line 224
empty_body_response(base, sel) ==
    into_response(base \o sel.encoding, BytesResponse(sel.body))

\* variant: the unsatisfiable response is returned without resp_base
range_response_bare_416(base, sel, served) ==
    IF served.ok
    THEN into_response(base \o sel.encoding, BodyRangeResponse(served))
    ELSE UnsatisfiableResponse(served)

\* the responses of lines 227-230, from the result of range serving
range_response(base, sel, served) ==
    IF served.ok
    THEN into_response(base \o sel.encoding, BodyRangeResponse(served))
    ELSE into_response(base, UnsatisfiableResponse(served))

\* static_inner as a whole (lines 167-231)
static_inner(d, accept_encoding, if_none_match, http_range) ==
    LET base == base_headers(d)
        sel  == select_body(d, accept_encoding, http_range)
    IN  IF matches(if_none_match, d.etag)
        THEN not_modified_response(base)
        ELSE IF skips_range_serving(sel)
        THEN empty_body_response(ranged_base_headers(base), sel)
        ELSE range_response(ranged_base_headers(base), sel,
                            serve_file_with_http_range(sel.body, http_range))

\* the terminal outcome a response stands for
Outcome(r) ==
    CASE r.status = 304 -> "NotModified"
      [] r.status = 206 -> "Partial"
      [] r.status = 416 -> "RangeNotSatisfiable"
      [] r.status = 200 -> "Full"
      [] OTHER -> "Other"

-----------------------------------------------------------------------------
(* Descriptors and requests of the model *)

\* byte values of the raw bodies
BodyBytes == {0, 1}

Bodies == SeqsUpTo(BodyBytes, MaxBody)

\* n copies of byte b
Repeat(b, n) == [i \in 1..n |-> b]

\* A compressed variant is kept only when it is shorter than the raw body
\* (is_compression_significant), so a descriptor's variant, when present, is
\* a byte string shorter than its body.  Codec output is opaque: a variant
\* of codec byte `mark` is `mark` repeated, which tells the raw, gzip and
\* zstd bytes of a descriptor apart.
VariantsOf(body, mark) ==
    {None} \cup {Some(Repeat(mark, n)) : n \in 0..(Len(body) - 1)}

\* quoted etags "a" and "b"
Etags == {<<34, 97, 34>>, <<34, 98, 34>>}

\* (content type, etag) of the assets served
Assets == {<<"text/html", <<34, 97, 34>>>>,
           <<"text/javascript", <<34, 98, 34>>>>}

\* the arguments static_route / static_method_router capture (lines 80-148)
Descriptors ==
    UNION {
      { [content_type |-> a[1], etag |-> a[2], body |-> b,
         body_gz |-> gz, body_zst |-> zst, cache_busted |-> cb] :
          a \in Assets, gz \in VariantsOf(b, 2), zst \in VariantsOf(b, 3),
          cb \in BOOLEAN }
      : b \in Bodies }

\* If-None-Match as received: absent, an etag, or an etag without quotes
IfNoneMatchValues ==
    {None} \cup {Some(e) : e \in Etags} \cup {Some(Unquote(e)) : e \in Etags}

\* Accept-Encoding as received: absent, "gzip", "zstd", "gzip, zstd"
AcceptEncodingValues ==
    {None, Some(GzipToken), Some(ZstdToken),
     Some(GzipToken \o <<44, 32>> \o ZstdToken)}

HttpRanges ==
    {<<"StartingPoint", s>> : s \in 0..MaxPos}
    \cup {<<"Range", r[1], r[2]>> :
            r \in {x \in (0..MaxPos) \X (0..MaxPos) : x[1] <= x[2]}}
    \cup {<<"Suffix", n>> : n \in 0..MaxPos}

\* Option<HttpRange> as extracted from the Range header
RangeValues == {None} \cup {Some(r) : r \in HttpRanges}

\* Accept-Encoding values built of up to MaxTokens tokens:
\* "gzip", "zstd", "gzi", "p", "GZIP", ", " and one byte that is not text
AETokens ==
    {GzipToken, ZstdToken, <<103, 122, 105>>, <<112>>,
     <<71, 90, 73, 80>>, <<44, 32>>, <<255>>}

RECURSIVE Flatten(_)
Flatten(ts) == IF Len(ts) = 0 THEN <<>> ELSE Head(ts) \o Flatten(Tail(ts))

TokenHeaders == {Flatten(ts) : ts \in SeqsUpTo(AETokens, MaxTokens)}

\* descriptors with and without each variant, one body
VariantDescriptors ==
    { [content_type |-> "text/javascript", etag |-> <<34, 97, 34>>,
       body |-> <<0, 1>>, body_gz |-> gz, body_zst |-> zst,
       cache_busted |-> FALSE] :
        gz \in {None, Some(<<2>>)}, zst \in {None, Some(<<3>>)} }

-----------------------------------------------------------------------------
(* The state machine of one request *)

NoRequest == [accept_encoding |-> None, if_none_match |-> None,
              range |-> None]
NoExtract == [accept_encoding |-> [gzip |-> FALSE, zstd |-> FALSE],
              if_none_match |-> None, http_range |-> None]
NoSelection == [body |-> <<>>, encoding |-> <<>>]

\* no request is being handled
NoHandling ==
    /\ pc = "Start"
    /\ req = NoRequest
    /\ extracted = NoExtract
    /\ resp_base = <<>>
    /\ selected = NoSelection
    /\ range_arg = None
    /\ resp = None
    /\ visited = <<"Start">>
    /\ outcomes = 0

Idle ==
    /\ NoHandling
    /\ NoBuild
    /\ NoRouter

Init == desc \in Descriptors /\ Idle

InitAE == desc \in VariantDescriptors /\ Idle

\* The content type, the etag text and the cache-busted flag only fill
\* header values; the descriptors of one asset, not cache-busted, take
\* every path through static_inner.
InitPass ==
    /\ desc \in {d \in Descriptors :
                    d.content_type = "text/html" /\ ~d.cache_busted}
    /\ Idle

\* the handler closure (lines 96-110 and 132-146): the extractors run and
\* static_inner is entered
Enter(ae, inm, range) ==
    /\ pc = "Start"
    /\ req' = [accept_encoding |-> ae, if_none_match |-> inm, range |-> range]
    /\ extracted' =
          [accept_encoding |-> AcceptEncoding_from_request_parts(ae),
           if_none_match   |-> IfNoneMatch_from_request_parts(inm),
           http_range      |-> range]
    /\ pc' = "ConditionalCheck"
    /\ visited' = Append(visited, "ConditionalCheck")
    /\ UNCHANGED <<desc, resp_base, selected, range_arg, resp, outcomes>>
    /\ UNCHANGED <<buildVars, concVars>>

Receive ==
    \E ae \in AcceptEncodingValues, inm \in IfNoneMatchValues,
       range \in RangeValues : Enter(ae, inm, range)

ReceiveAE ==
    \E h \in TokenHeaders, present \in BOOLEAN :
        Enter(IF present THEN Some(h) ELSE None, None, None)

\* variant: the 304 is built but static_inner does not return
ConditionalCheck_no_return ==
    /\ pc = "ConditionalCheck"
    /\ resp_base' = base_headers(desc)
    /\ IF matches(extracted.if_none_match, desc.etag)
       THEN /\ resp' = Some(not_modified_response(resp_base'))
            /\ outcomes' = outcomes + 1
       ELSE UNCHANGED <<resp, outcomes>>
    /\ pc' = "EncodingSelect"
    /\ visited' = Append(visited, pc')
    /\ UNCHANGED <<desc, req, extracted, selected, range_arg>>
    /\ UNCHANGED <<buildVars, concVars>>

\* lines 180-200
ConditionalCheck ==
    /\ pc = "ConditionalCheck"
    /\ resp_base' = base_headers(desc)
    /\ IF matches(extracted.if_none_match, desc.etag)
       THEN /\ resp' = Some(not_modified_response(resp_base'))
            /\ outcomes' = outcomes + 1
            /\ pc' = "Respond"
       ELSE /\ pc' = "EncodingSelect"
            /\ UNCHANGED <<resp, outcomes>>
    /\ visited' = Append(visited, pc')
    /\ UNCHANGED <<desc, req, extracted, selected, range_arg>>
    /\ UNCHANGED <<buildVars, concVars>>

\* lines 202-220
EncodingSelect ==
    /\ pc = "EncodingSelect"
    /\ resp_base' = ranged_base_headers(resp_base)
    /\ selected' = select_body(desc, extracted.accept_encoding,
                               extracted.http_range)
    /\ pc' = "RangeServe"
    /\ visited' = Append(visited, pc')
    /\ UNCHANGED <<desc, req, extracted, range_arg, resp, outcomes>>
    /\ UNCHANGED <<buildVars, concVars>>

\* lines 222-230
RangeServe ==
    /\ pc = "RangeServe"
    /\ IF skips_range_serving(selected)
       THEN /\ resp' = Some(empty_body_response(resp_base, selected))
            /\ UNCHANGED range_arg
       ELSE /\ range_arg' = Some(<<selected.body, extracted.http_range>>)
            /\ resp' = Some(range_response(resp_base, selected,
                              serve_file_with_http_range(
                                  selected.body, extracted.http_range)))
    /\ outcomes' = outcomes + 1
    /\ pc' = "Respond"
    /\ visited' = Append(visited, pc')
    /\ UNCHANGED <<desc, req, extracted, resp_base, selected>>
    /\ UNCHANGED <<buildVars, concVars>>

\* the response is handed to the framework and the request is dropped
Complete ==
    /\ pc = "Respond"
    /\ pc' = "Start"
    /\ req' = NoRequest
    /\ extracted' = NoExtract
    /\ resp_base' = <<>>
    /\ selected' = NoSelection
    /\ range_arg' = None
    /\ resp' = None
    /\ visited' = <<"Start">>
    /\ outcomes' = 0
    /\ UNCHANGED desc
    /\ UNCHANGED <<buildVars, concVars>>

Step == ConditionalCheck \/ EncodingSelect \/ RangeServe

Next == Receive \/ ConditionalCheck \/ EncodingSelect \/ RangeServe \/ Complete

NextAE == ReceiveAE \/ ConditionalCheck \/ EncodingSelect \/ RangeServe \/ Complete

Spec == Init /\ [][Next]_vars

\* static_inner is synchronous code: once entered it runs to its return
FairSpec == InitPass /\ [][Next]_vars /\ WF_vars(Step)

SpecAE == InitAE /\ [][NextAE]_vars

-----------------------------------------------------------------------------
(* What the claims speak of *)

Responded == pc = "Respond"

\* the request's If-None-Match value is, byte for byte, the descriptor's etag
EtagHit ==
    IsSome(req.if_none_match) /\ Unwrap(req.if_none_match) = desc.etag

RangeRequested == IsSome(req.range)

Header(name) == Unwrap(resp).headers[name]

AcceptsGzip == extracted.accept_encoding.gzip
AcceptsZstd == extracted.accept_encoding.zstd

ZstdChosen == AcceptsZstd /\ IsSome(desc.body_zst)
GzipChosen == ~ZstdChosen /\ AcceptsGzip /\ IsSome(desc.body_gz)

-----------------------------------------------------------------------------
\* C1: static_inner answers 304 if and only if the request carries an
\* If-None-Match value byte-for-byte equal to the descriptor's etag (quotes
\* included); then the body is empty whatever Accept-Encoding and Range are,
\* and neither encoding selection nor range serving takes place.
C1_ConditionalMatch ==
    Responded =>
        /\ (Unwrap(resp).status = 304) <=> EtagHit
        /\ EtagHit =>
              /\ Unwrap(resp).body = <<>>
              /\ visited = <<"Start", "ConditionalCheck", "Respond">>
              /\ selected = NoSelection
              /\ range_arg = None
              /\ Header("content-encoding") = None
              /\ Header("content-range") = None

\* a 304 for a request that also accepts zstd and asks for a range, against
\* a descriptor that has a zstd variant
C1_Witness ==
    /\ Responded /\ EtagHit /\ RangeRequested
    /\ AcceptsZstd /\ IsSome(desc.body_zst)
    /\ Unwrap(resp).status = 304

\* C2: with a Range header and no conditional match, the body handed to
\* range serving is the raw body and the response has no content-encoding,
\* even when zstd and gzip are accepted and both variants exist; no byte of
\* a compressed variant is range-served.
C2_RangeServesRawBody ==
    (Responded /\ RangeRequested /\ ~EtagHit) =>
        /\ selected.body = desc.body
        /\ Header("content-encoding") = None
        /\ IsSome(range_arg) => Unwrap(range_arg)[1] = desc.body
        /\ \A i \in 1..Len(Unwrap(resp).body) :
              Unwrap(resp).body[i] \in BodyBytes
        /\ Unwrap(resp).status = 206 =>
              LET cr == Unwrap(Header("content-range"))
              IN  Unwrap(resp).body = SubSeq(desc.body, cr[1] + 1, cr[2] + 1)

\* a 206 for a client that accepts both encodings, both variants existing
C2_Witness ==
    /\ Responded /\ RangeRequested /\ ~EtagHit
    /\ AcceptsZstd /\ AcceptsGzip
    /\ IsSome(desc.body_zst) /\ IsSome(desc.body_gz)
    /\ Unwrap(resp).status = 206

\* C3: with no conditional match and no Range header, a client that accepts
\* zstd gets exactly the zstd variant, with content-encoding: zstd, whenever
\* the descriptor has one, also when gzip is accepted and exists too.
C3_ZstdFirst ==
    (Responded /\ ~EtagHit /\ ~RangeRequested
        /\ AcceptsZstd /\ IsSome(desc.body_zst)) =>
        /\ Unwrap(resp).body = Unwrap(desc.body_zst)
        /\ Header("content-encoding") = Some("zstd")
        /\ Unwrap(resp).status = 200

\* zstd served although gzip is accepted and a gzip variant exists
C3_Witness ==
    /\ Responded /\ ~EtagHit /\ ~RangeRequested
    /\ AcceptsZstd /\ IsSome(desc.body_zst)
    /\ AcceptsGzip /\ IsSome(desc.body_gz)
    /\ Header("content-encoding") = Some("zstd")

\* C4: with no conditional match, no Range header and zstd not chosen, the
\* gzip variant is sent with content-encoding: gzip exactly when the client
\* accepts gzip and a gzip variant exists; otherwise the raw body is sent
\* with no content-encoding header.
C4_GzipElseRaw ==
    (Responded /\ ~EtagHit /\ ~RangeRequested /\ ~ZstdChosen) =>
        IF AcceptsGzip /\ IsSome(desc.body_gz)
        THEN /\ Unwrap(resp).body = Unwrap(desc.body_gz)
             /\ Header("content-encoding") = Some("gzip")
        ELSE /\ Unwrap(resp).body = desc.body
             /\ Header("content-encoding") = None

\* the gzip variant for a client that accepts zstd and gzip, the descriptor
\* having no zstd variant
C4_Witness ==
    /\ Responded /\ ~EtagHit /\ ~RangeRequested
    /\ AcceptsZstd /\ IsNone(desc.body_zst)
    /\ AcceptsGzip /\ IsSome(desc.body_gz)
    /\ Unwrap(resp).body = Unwrap(desc.body_gz)
    /\ Header("content-encoding") = Some("gzip")

\* C5: every response (304, 200, 206, 416) carries the descriptor's content
\* type, the descriptor's quoted etag, and vary: Accept-Encoding.
C5_BaseHeaders ==
    Responded =>
        /\ Header("content-type") = Some(desc.content_type)
        /\ Header("etag") = Some(desc.etag)
        /\ Header("vary") = Some("Accept-Encoding")

\* a 416 carrying the three headers
C5_Witness ==
    /\ Responded
    /\ Unwrap(resp).status = 416
    /\ Header("content-type") = Some(desc.content_type)
    /\ Header("etag") = Some(desc.etag)
    /\ Header("vary") = Some("Accept-Encoding")

\* C6: a response carries cache-control if and only if the descriptor is
\* cache-busted, in every outcome; its value is then
\* "public, max-age=31536000, immutable"; otherwise the header is absent.
C6_CacheControl ==
    Responded =>
        Header("cache-control") =
            IF desc.cache_busted
            THEN Some("public, max-age=31536000, immutable")
            ELSE None

\* a 304 of a cache-busted descriptor, with the directive
C6_Witness ==
    /\ Responded
    /\ desc.cache_busted
    /\ Unwrap(resp).status = 304
    /\ Header("cache-control") = Some("public, max-age=31536000, immutable")

\* C7: every response that is not a 304 (full, empty full, 206, 416)
\* advertises accept-ranges: bytes.
C7_AcceptRanges ==
    (Responded /\ Unwrap(resp).status # 304) =>
        Header("accept-ranges") = Some("bytes")

\* the full response of an empty body to a request with a Range header
C7_Witness ==
    /\ Responded /\ RangeRequested
    /\ Unwrap(resp).status = 200
    /\ Unwrap(resp).body = <<>>
    /\ Header("accept-ranges") = Some("bytes")

-----------------------------------------------------------------------------
(* The chain of 4.6 *)

Rank(p) ==
    CASE p = "Start" -> 0
      [] p = "ConditionalCheck" -> 1
      [] p = "EncodingSelect" -> 2
      [] p = "RangeServe" -> 3
      [] p = "Respond" -> 4

TerminalOutcomes == {"NotModified", "Full", "Partial", "RangeNotSatisfiable"}

InFlight == pc \in {"ConditionalCheck", "EncodingSelect", "RangeServe"}

\* the positions visited so far go strictly forward along the chain, from
\* Start to the present position
ForwardPass ==
    /\ visited[1] = "Start"
    /\ visited[Len(visited)] = pc
    /\ \A i \in 1..(Len(visited) - 1) : Rank(visited[i]) < Rank(visited[i + 1])

\* one response, produced on reaching Respond and not before
OneOutcome ==
    /\ outcomes = (IF Responded THEN 1 ELSE 0)
    /\ IsSome(resp) <=> Responded
    /\ Responded => Outcome(Unwrap(resp)) \in TerminalOutcomes

\* C8: every request handled by static_inner ends with exactly one terminal
\* outcome out of NotModified, Full, Partial, RangeNotSatisfiable, reached
\* by one forward pass ConditionalCheck -> EncodingSelect -> RangeServe ->
\* Respond: no position is visited twice, no outcome follows another, and
\* a request that entered the handler reaches Respond.
C8_SinglePass ==
    /\ [](ForwardPass /\ OneOutcome)
    /\ [][InFlight => Rank(pc') > Rank(pc)]_vars
    /\ (InFlight ~> Responded)

\* a request that went through the whole chain and ended Partial
C8_Witness ==
    /\ visited = <<"Start", "ConditionalCheck", "EncodingSelect",
                   "RangeServe", "Respond">>
    /\ outcomes = 1
    /\ Outcome(Unwrap(resp)) = "Partial"

-----------------------------------------------------------------------------
\* C9: range serving is invoked only when there is no conditional match and
\* the selected body is non-empty; a 206 or 416 occurs only for a request
\* with a Range header against a non-empty raw body; a Range header against
\* an empty body gets the full (empty) body, and a request without a Range
\* header gets the full selected body.
C9_RangeServing ==
    Responded =>
        /\ IsSome(range_arg) =>
              /\ ~EtagHit
              /\ Len(selected.body) > 0
              /\ Unwrap(range_arg) = <<selected.body, req.range>>
        /\ Unwrap(resp).status \in {206, 416} =>
              /\ RangeRequested
              /\ Len(desc.body) > 0
              /\ Unwrap(range_arg)[1] = desc.body
        /\ (RangeRequested /\ ~EtagHit /\ Len(desc.body) = 0) =>
              /\ Unwrap(resp).status = 200
              /\ Unwrap(resp).body = <<>>
              /\ range_arg = None
        /\ (~RangeRequested /\ ~EtagHit) =>
              /\ Unwrap(resp).status = 200
              /\ Unwrap(resp).body = selected.body

\* a Range header against an empty body, answered with the full empty body
C9_Witness ==
    /\ Responded /\ RangeRequested /\ ~EtagHit
    /\ Len(desc.body) = 0
    /\ Unwrap(resp).status = 200
    /\ range_arg = None

-----------------------------------------------------------------------------
(* Accept-Encoding, stated on the header as received *)

\* the header is present and every byte of it is text
HeaderIsText(h) ==
    IsSome(h) /\ \A i \in 1..Len(Unwrap(h)) : IsVisibleAscii(Unwrap(h)[i])

\* the bytes of word stand in value from some offset on, case as written
Occurs(word, value) ==
    \E off \in 0..(Len(value) - Len(word)) :
        \A k \in 1..Len(word) : value[off + k] = word[k]

\* C10: gzip is accepted iff the Accept-Encoding value is text and contains
\* "gzip" anywhere, zstd iff it is text and contains "zstd" anywhere, case
\* as received and each independently of the other; an absent header or one
\* that is not valid text accepts neither, and the raw body is served.
C10_AcceptEncoding ==
    pc # "Start" =>
        LET h == req.accept_encoding
        IN  /\ AcceptsGzip <=> (HeaderIsText(h) /\ Occurs(GzipToken, Unwrap(h)))
            /\ AcceptsZstd <=> (HeaderIsText(h) /\ Occurs(ZstdToken, Unwrap(h)))
            /\ (Responded /\ ~HeaderIsText(h)) =>
                  /\ Unwrap(resp).body = desc.body
                  /\ Header("content-encoding") = None

\* "GZIPzstd": zstd accepted and served, gzip not accepted
C10_Witness ==
    /\ Responded
    /\ req.accept_encoding = Some(<<71, 90, 73, 80, 122, 115, 116, 100>>)
    /\ AcceptsZstd /\ ~AcceptsGzip
    /\ IsSome(desc.body_zst) /\ IsSome(desc.body_gz)
    /\ Header("content-encoding") = Some("zstd")

-----------------------------------------------------------------------------
(* Build time: src/static-serve-macro/src/lib.rs.                          *)
(*                                                                         *)
(* A text is a sequence of one-character strings.  A path is a sequence of *)
(* components, each a text; its string form joins them with "/".  Result   *)
(* values are [ok |-> TRUE, val |-> v] and [ok |-> FALSE, err |-> e]; a    *)
(* variant of error::Error is the tuple of its name and its payload, an    *)
(* error of the argument parser is its message.                            *)

Ok(v) == [ok |-> TRUE, val |-> v]
Err(e) == [ok |-> FALSE, err |-> e]

\* a character that is not valid Unicode, as an OsStr may hold
NonUnicode == "\\xFF"

IsUnicode(text) == \A i \in 1..Len(text) : text[i] # NonUnicode

IsPrefix(pre, seq) ==
    Len(pre) <= Len(seq) /\ SubSeq(seq, 1, Len(pre)) = pre

IsSuffix(suf, seq) ==
    Len(suf) <= Len(seq)
    /\ SubSeq(seq, Len(seq) - Len(suf) + 1, Len(seq)) = suf

\* str::strip_prefix
strip_prefix(text, pre) ==
    IF IsPrefix(pre, text)
    THEN Some(SubSeq(text, Len(pre) + 1, Len(text))) ELSE None

\* str::strip_suffix
strip_suffix(text, suf) ==
    IF IsSuffix(suf, text)
    THEN Some(SubSeq(text, 1, Len(text) - Len(suf))) ELSE None

\* the string form of a path, without a test for Unicode
RECURSIVE PathText(_)
PathText(path) ==
    IF Len(path) = 0 THEN <<>>
    ELSE <<"/">> \o Head(path) \o PathText(Tail(path))

\* Path::to_str
path_to_str(path) ==
    LET checked(text) == IF IsUnicode(text) THEN Some(text) ELSE None
    IN  checked(PathText(path))

\* variant: base is a prefix of the path's text
path_starts_with_text(path, base) == IsPrefix(PathText(base), PathText(path))

\* Path::starts_with: base is a leading run of whole components of path
path_starts_with(path, base) == IsPrefix(base, path)

\* position of the last "." of a text, 0 if it has none
LastDot(text) ==
    LET last(dots) ==
            IF dots = {} THEN 0
            ELSE CHOOSE i \in dots : \A j \in dots : j <= i
    IN  last({i \in 1..Len(text) : text[i] = "."})

\* Path::extension: what follows the last "." of the file name, unless the
\* name has no "." or only a leading one
path_extension(path) ==
    LET after_dot(name, dot) ==
            IF dot <= 1 THEN None ELSE Some(SubSeq(name, dot + 1, Len(name)))
        of_name(name) == after_dot(name, LastDot(name))
    IN  IF Len(path) = 0 THEN None ELSE of_name(path[Len(path)])

\* ASCII lower case of the letters the model uses in upper case
LowerChar(c) ==
    CASE c = "J" -> "j" [] c = "S" -> "s" [] c = "H" -> "h"
      [] c = "T" -> "t" [] c = "M" -> "m" [] c = "L" -> "l"
      [] OTHER -> c

Lower(text) == [i \in 1..Len(text) |-> LowerChar(text[i])]

\* mime_guess::MimeGuess::from_ext(ext).first_raw(), for the extensions of
\* the model; the lookup ignores case
MimeFirstRaw(ext) ==
    LET lookup(e) ==
            CASE e = <<"j", "s">> -> Some("text/javascript")
              [] e = <<"c", "s", "s">> -> Some("text/css")
              [] e = <<"h", "t", "m", "l">> -> Some("text/html")
              [] e = <<"h", "t", "m">> -> Some("text/html")
              [] e = <<"t", "x", "t">> -> Some("text/plain")
              [] OTHER -> None
    IN  lookup(Lower(ext))

\* variant: an extension without MIME type is typed as a byte stream
file_content_type_default(path) ==
    LET first_raw(ext, guess) ==
            IF IsSome(guess) THEN Ok(Unwrap(guess))
            ELSE Ok("application/octet-stream")
        typed(ext) ==
            IF IsNone(ext) THEN Err(<<"UnknownFileExtension", None>>)
            ELSE IF ~IsUnicode(Unwrap(ext))
            THEN Err(<<"InvalidFileExtension", path>>)
            ELSE first_raw(ext, MimeFirstRaw(Unwrap(ext)))
    IN  typed(path_extension(path))

\* file_content_type (lines 746-764)
file_content_type(path) ==
    LET first_raw(ext, guess) ==
            IF IsSome(guess) THEN Ok(Unwrap(guess))
            ELSE Err(<<"UnknownFileExtension", ext>>)
        typed(ext) ==
            IF IsNone(ext) THEN Err(<<"UnknownFileExtension", None>>)
            ELSE IF ~IsUnicode(Unwrap(ext))
            THEN Err(<<"InvalidFileExtension", path>>)
            ELSE first_raw(ext, MimeFirstRaw(Unwrap(ext)))
    IN  typed(path_extension(path))

\* variant: a trailing index is kept
strip_html_ext_keep_index(path) ==
    LET without_ext(entry_str, html, htm) ==
            Ok(IF IsSome(html) THEN Unwrap(html)
               ELSE IF IsSome(htm) THEN Unwrap(htm)
               ELSE entry_str)
        stripped(entry_str) ==
            IF IsNone(entry_str) THEN Err(<<"InvalidUnicodeInEntryName">>)
            ELSE without_ext(Unwrap(entry_str),
                     strip_suffix(Unwrap(entry_str),
                                  <<".", "h", "t", "m", "l">>),
                     strip_suffix(Unwrap(entry_str), <<".", "h", "t", "m">>))
    IN  stripped(path_to_str(path))

\* strip_html_ext (lines 773-790), on a path's string form
strip_html_ext(path) ==
    LET without_index(output) ==
            IF IsSuffix(<<"/", "i", "n", "d", "e", "x">>, output)
            THEN Ok(Unwrap(strip_suffix(output, <<"i", "n", "d", "e", "x">>)))
            ELSE Ok(output)
        without_ext(entry_str, html, htm) ==
            without_index(IF IsSome(html) THEN Unwrap(html)
                          ELSE IF IsSome(htm) THEN Unwrap(htm)
                          ELSE entry_str)
        stripped(entry_str) ==
            IF IsNone(entry_str) THEN Err(<<"InvalidUnicodeInEntryName">>)
            ELSE without_ext(Unwrap(entry_str),
                     strip_suffix(Unwrap(entry_str),
                                  <<".", "h", "t", "m", "l">>),
                     strip_suffix(Unwrap(entry_str), <<".", "h", "t", "m">>))
    IN  stripped(path_to_str(path))

-----------------------------------------------------------------------------
(* The file system the macros read: fs maps an absolute path to its node,  *)
(* a regular file with contents, a directory, or a symbolic link with a    *)
(* target.  The empty path is the file system's root directory.            *)

FileNode(contents) == [kind |-> "file", contents |-> contents, target |-> <<>>]
DirNode == [kind |-> "dir", contents |-> <<>>, target |-> <<>>]
LinkNode(target) == [kind |-> "link", contents |-> <<>>, target |-> target]
\* a regular file the build may not open
LockedNode == [kind |-> "locked", contents |-> <<>>, target |-> <<>>]

Dot == <<".">>
DotDot == <<".", ".">>

Parent(path) == IF Len(path) = 0 THEN path ELSE SubSeq(path, 1, Len(path) - 1)

\* PathBuf::join of a relative path
join(base, rel) == base \o rel

\* Walks rest from the resolved directory cur: "." stays, ".." goes up, a
\* link continues at its target, a missing name is NotFound
RECURSIVE Resolve(_, _, _)
Resolve(cur, rest, fuel) ==
    IF Len(rest) = 0 THEN Ok(cur)
    ELSE IF cur \in DOMAIN fs /\ fs[cur].kind = "file"
    THEN Err("NotADirectory")
    ELSE IF Head(rest) = Dot THEN Resolve(cur, Tail(rest), fuel)
    ELSE IF Head(rest) = DotDot THEN Resolve(Parent(cur), Tail(rest), fuel)
    ELSE
      LET next == Append(cur, Head(rest))
      IN  IF next \notin DOMAIN fs THEN Err("NotFound")
          ELSE IF fs[next].kind = "link"
          THEN IF fuel = 0 THEN Err("FilesystemLoop")
               ELSE Resolve(<<>>, fs[next].target \o Tail(rest), fuel - 1)
          ELSE Resolve(next, Tail(rest), fuel)

\* Path::canonicalize
canonicalize(path) == Resolve(<<>>, path, Cardinality(DOMAIN fs))

\* fs::metadata and Path::metadata: the node a path leads to, links followed
metadata(path) ==
    LET node_at(canon) ==
            IF ~canon.ok THEN canon
            ELSE IF Len(canon.val) = 0 THEN Ok(DirNode)
            ELSE Ok(fs[canon.val])
    IN  node_at(canonicalize(path))

is_dir(path) ==
    LET is_dir_node(meta) == meta.ok /\ meta.val.kind = "dir"
    IN  is_dir_node(metadata(path))

\* the names in the directory a path leads to
ReadDir(dir) ==
    LET names_in(canon) ==
            IF ~canon.ok THEN {}
            ELSE {p[Len(p)] : p \in {q \in DOMAIN fs :
                                        Len(q) > 0 /\ Parent(q) = canon.val}}
    IN  names_in(canonicalize(dir))

\* glob("{dir}/**/*"): every path below dir, directories included; the walk
\* descends into whatever leads to a directory and keeps the names it took
RECURSIVE GlobBelow(_, _)
GlobBelow(dir, fuel) ==
    UNION {
      {Append(dir, name)} \cup
        (IF is_dir(Append(dir, name)) /\ fuel > 0
         THEN GlobBelow(Append(dir, name), fuel - 1) ELSE {})
      : name \in ReadDir(dir) }

glob(dir) == GlobBelow(dir, Cardinality(DOMAIN fs))

\* fs::read
read(path) ==
    LET contents_of(meta) ==
            IF ~meta.ok THEN meta
            ELSE IF meta.val.kind = "dir" THEN Err("IsADirectory")
            ELSE IF meta.val.kind = "locked" THEN Err("PermissionDenied")
            ELSE Ok(meta.val.contents)
    IN  contents_of(metadata(path))

-----------------------------------------------------------------------------
(* Compression and hashing.  The codecs and SHA-1 are functions of the     *)
(* contents alone; oracle holds them: oracle.gzip and oracle.zstd give the *)
(* encoder's result for each contents, oracle.sha1 the 20 digest bytes.    *)

\* variant: the threshold is compared with <=
is_compression_significant_or_equal(compressed_len, contents_len) ==
    compressed_len <= (contents_len \div 10) * 9

\* is_compression_significant (lines 731-734), usize arithmetic
is_compression_significant(compressed_len, contents_len) ==
    LET ninety_pct_original == (contents_len \div 10) * 9
    IN  compressed_len < ninety_pct_original

\* maybe_get_compressed (lines 736-739)
maybe_get_compressed(compressed, contents) ==
    IF is_compression_significant(Len(compressed), Len(contents))
    THEN Some(compressed) ELSE None

\* gzip_compress (lines 687-697)
gzip_compress(contents) ==
    LET finished(compressed) ==
            IF ~compressed.ok THEN Err(<<"Gzip", compressed.err>>)
            ELSE Ok(maybe_get_compressed(compressed.val, contents))
    IN  finished(oracle.gzip[contents])

\* zstd_compress (lines 699-710)
zstd_compress(contents) ==
    LET finished(compressed) ==
            IF ~compressed.ok THEN Err(<<"Zstd", compressed.err>>)
            ELSE Ok(maybe_get_compressed(compressed.val, contents))
    IN  finished(oracle.zstd[contents])

\* bit i of a byte
Bit(a, i) == (a \div (2 ^ i)) % 2

\* bitwise exclusive or of two bytes
Xor(a, b) ==
    LET XorBit(i) == (2 ^ i) * ((Bit(a, i) + Bit(b, i)) % 2)
    IN  XorBit(0) + XorBit(1) + XorBit(2) + XorBit(3)
          + XorBit(4) + XorBit(5) + XorBit(6) + XorBit(7)

\* code of a lower-case hexadecimal digit
HexDigit(n) == IF n < 10 THEN 48 + n ELSE 87 + n

\* the eight bytes of u64::from_le_bytes(a) ^ u64::from_le_bytes(b), least
\* significant first
XorLe(a, b) == [i \in 1..8 |-> Xor(a[i], b[i])]

\* {:x} of the 64-bit value whose little-endian bytes are le: the digits
\* from the most significant, without leading zeros, at least one digit
LowerHex(le) ==
    LET from(digits, lead) ==
            SubSeq(digits,
                   IF lead = {} THEN 16
                   ELSE CHOOSE i \in lead : \A j \in lead : i <= j,
                   16)
        significant(digits) ==
            from(digits, {i \in 1..16 : digits[i] # 48})
        nibble(byte, i) ==
            IF i % 2 = 1 THEN HexDigit(byte \div 16) ELSE HexDigit(byte % 16)
    IN  significant([i \in 1..16 |-> nibble(le[8 - ((i - 1) \div 2)], i)])

\* the fill of a width given with a leading 0: zeros on the left up to width
PadZero(digits, width) ==
    IF Len(digits) >= width THEN digits
    ELSE [i \in 1..(width - Len(digits)) |-> 48] \o digits

\* variant: the hash is rendered without the fixed width
etag_unpadded(contents) ==
    LET render(sha) ==
            <<34>> \o LowerHex(XorLe(SubSeq(sha, 1, 8), SubSeq(sha, 9, 16)))
                   \o <<34>>
    IN  render(oracle.sha1[contents])

\* etag (lines 766-771)
etag(contents) ==
    LET render(hash) == <<34>> \o PadZero(LowerHex(hash), 16) \o <<34>>
        xored(sha256) ==
            render(XorLe(SubSeq(sha256, 1, 8), SubSeq(sha256, 9, 16)))
    IN  xored(oracle.sha1[contents])

-----------------------------------------------------------------------------
(* EmbeddedFileInfo::from_path and the macros' argument parsing.           *)

unwrap_or_default(opt) == IF IsSome(opt) THEN Unwrap(opt) ELSE <<>>

\* variant: the rewrite is applied whatever strip_html_ext says
entry_path_of_always_strip(pathbuf, assets_dir_abs_str, should_strip_html_ext, content_type) ==
    LET relative(stripped) ==
            IF ~stripped.ok THEN stripped
            ELSE Ok(Some(unwrap_or_default(
                     strip_prefix(stripped.val, Unwrap(assets_dir_abs_str)))))
        as_is(entry_str) ==
            IF IsNone(entry_str) THEN Err(<<"InvalidUnicodeInEntryName">>)
            ELSE Ok(strip_prefix(Unwrap(entry_str),
                                 Unwrap(assets_dir_abs_str)))
    IN  IF IsNone(assets_dir_abs_str) THEN Ok(None)
        ELSE IF content_type = "text/html"
        THEN relative(strip_html_ext(pathbuf))
        ELSE as_is(path_to_str(pathbuf))

\* the entry_path of from_path (lines 653-668): an Option of the web path
entry_path_of(pathbuf, assets_dir_abs_str, should_strip_html_ext, content_type) ==
    LET relative(stripped) ==
            IF ~stripped.ok THEN stripped
            ELSE Ok(Some(unwrap_or_default(
                     strip_prefix(stripped.val, Unwrap(assets_dir_abs_str)))))
        as_is(entry_str) ==
            IF IsNone(entry_str) THEN Err(<<"InvalidUnicodeInEntryName">>)
            ELSE Ok(strip_prefix(Unwrap(entry_str),
                                 Unwrap(assets_dir_abs_str)))
    IN  IF IsNone(assets_dir_abs_str) THEN Ok(None)
        ELSE IF should_strip_html_ext /\ content_type = "text/html"
        THEN relative(strip_html_ext(pathbuf))
        ELSE as_is(path_to_str(pathbuf))

\* the compression step of from_path (lines 642-648): (gzip, zstd)
compress_step(contents, should_compress) ==
    LET both(gzip, zstd) ==
            IF ~zstd.ok THEN zstd ELSE Ok(<<gzip.val, zstd.val>>)
        after_gzip(gzip) ==
            IF ~gzip.ok THEN gzip ELSE both(gzip, zstd_compress(contents))
    IN  IF should_compress THEN after_gzip(gzip_compress(contents))
        ELSE Ok(<<None, None>>)

\* variant: the files are compressed whatever the option says
from_path_always_compress(pathbuf, assets_dir_abs_str, should_compress, should_strip_html_ext, cache_busted) ==
    LET info(contents, variants, content_type, entry_path) ==
            IF ~entry_path.ok THEN entry_path
            ELSE Ok([entry_path |-> entry_path.val,
                     content_type |-> content_type,
                     etag_str |-> etag(contents),
                     lit_byte_str_contents |-> contents,
                     maybe_gzip |-> variants[1],
                     maybe_zstd |-> variants[2],
                     cache_busted |-> cache_busted])
        typed(contents, variants, content_type) ==
            IF ~content_type.ok THEN content_type
            ELSE info(contents, variants, content_type.val,
                      entry_path_of(pathbuf, assets_dir_abs_str,
                                    should_strip_html_ext, content_type.val))
        compressed(contents, variants) ==
            IF ~variants.ok THEN variants
            ELSE typed(contents, variants.val, file_content_type(pathbuf))
        loaded(contents) ==
            IF ~contents.ok
            THEN Err(<<"CannotReadEntryContents", contents.err>>)
            ELSE compressed(contents.val,
                            compress_step(contents.val, TRUE))
    IN  loaded(read(pathbuf))

\* EmbeddedFileInfo::from_path (lines 631-685)
\* variant: the etag is computed over the gzip variant when one is kept
from_path_hash_served(pathbuf, assets_dir_abs_str, should_compress, should_strip_html_ext, cache_busted) ==
    LET info(contents, variants, content_type, entry_path) ==
            IF ~entry_path.ok THEN entry_path
            ELSE Ok([entry_path |-> entry_path.val,
                     content_type |-> content_type,
                     etag_str |-> IF IsSome(variants[1])
                                 THEN etag(Unwrap(variants[1]))
                                 ELSE etag(contents),
                     lit_byte_str_contents |-> contents,
                     maybe_gzip |-> variants[1],
                     maybe_zstd |-> variants[2],
                     cache_busted |-> cache_busted])
        typed(contents, variants, content_type) ==
            IF ~content_type.ok THEN content_type
            ELSE info(contents, variants, content_type.val,
                      entry_path_of(pathbuf, assets_dir_abs_str,
                                    should_strip_html_ext, content_type.val))
        compressed(contents, variants) ==
            IF ~variants.ok THEN variants
            ELSE typed(contents, variants.val, file_content_type(pathbuf))
        loaded(contents) ==
            IF ~contents.ok
            THEN Err(<<"CannotReadEntryContents", contents.err>>)
            ELSE compressed(contents.val,
                            compress_step(contents.val, should_compress))
    IN  loaded(read(pathbuf))

from_path(pathbuf, assets_dir_abs_str, should_compress, should_strip_html_ext, cache_busted) ==
    LET info(contents, variants, content_type, entry_path) ==
            IF ~entry_path.ok THEN entry_path
            ELSE Ok([entry_path |-> entry_path.val,
                     content_type |-> content_type,
                     etag_str |-> etag(contents),
                     lit_byte_str_contents |-> contents,
                     maybe_gzip |-> variants[1],
                     maybe_zstd |-> variants[2],
                     cache_busted |-> cache_busted])
        typed(contents, variants, content_type) ==
            IF ~content_type.ok THEN content_type
            ELSE info(contents, variants, content_type.val,
                      entry_path_of(pathbuf, assets_dir_abs_str,
                                    should_strip_html_ext, content_type.val))
        compressed(contents, variants) ==
            IF ~variants.ok THEN variants
            ELSE typed(contents, variants.val, file_content_type(pathbuf))
        loaded(contents) ==
            IF ~contents.ok
            THEN Err(<<"CannotReadEntryContents", contents.err>>)
            ELSE compressed(contents.val,
                            compress_step(contents.val, should_compress))
    IN  loaded(read(pathbuf))

\* the value of the last `key = value` argument with this key, or default
RECURSIVE LastArg(_, _, _)
LastArg(args, key, default) ==
    IF Len(args) = 0 THEN default
    ELSE IF args[Len(args)][1] = key THEN args[Len(args)][2]
    ELSE LastArg(SubSeq(args, 1, Len(args) - 1), key, default)

UnknownKeys(args, known) == {i \in 1..Len(args) : args[i][1] \notin known}

\* AssetFile::parse (lines 101-132)
AssetFile_parse(literal) ==
    LET checked(meta) ==
            IF ~meta.ok /\ meta.err = "NotFound"
            THEN Err("The specified asset file does not exist.")
            ELSE IF ~meta.ok THEN Err("Error reading file")
            ELSE IF meta.val.kind = "dir"
            THEN Err("The specified asset is a directory, not a file.")
            ELSE Ok(literal)
    IN  checked(metadata(literal))

\* EmbedAsset::parse (lines 48-99)
EmbedAsset_parse(input) ==
    LET keys(asset_file) ==
            IF ~asset_file.ok THEN asset_file
            ELSE IF UnknownKeys(input.args, {"compress", "cache_bust"}) # {}
            THEN Err("Unknown key in embed_asset! macro.")
            ELSE Ok([asset_file |-> asset_file.val,
                     should_compress |->
                         LastArg(input.args, "compress", FALSE),
                     cache_busted |->
                         LastArg(input.args, "cache_bust", FALSE)])
    IN  keys(AssetFile_parse(input.path))

-----------------------------------------------------------------------------
(* embed_asset!: one file becomes one handler.  opts is the macro's input, *)
(* [macro, path, args]; valid is the parsed struct; routes is the code the *)
(* expansion emits, one record per static_route / static_method_router     *)
(* call; error is the compile error of a failed expansion.                 *)

\* no descriptor is being served while a macro expands
NoDescriptor ==
    [content_type |-> "", etag |-> <<>>, body |-> <<>>, body_gz |-> None,
     body_zst |-> None, cache_busted |-> FALSE]

\* variant: the cache_bust argument is not passed on
generate_static_handler_never_busted(asset_file, should_compress, cache_busted) ==
    LET route(asset_file_abs_str, info) ==
            IF ~info.ok THEN info
            ELSE Ok([path |-> None,
                     content_type |-> info.val.content_type,
                     etag |-> info.val.etag_str,
                     body |-> info.val.lit_byte_str_contents,
                     body_gz |-> info.val.maybe_gzip,
                     body_zst |-> info.val.maybe_zstd,
                     cache_busted |-> info.val.cache_busted,
                     include_bytes |-> asset_file_abs_str])
        named(asset_file_abs, asset_file_abs_str) ==
            IF IsNone(asset_file_abs_str) THEN Err(<<"FilePathIsNotUtf8">>)
            ELSE route(Unwrap(asset_file_abs_str),
                       from_path(asset_file_abs, None, should_compress,
                                 FALSE, FALSE))
        canonical(asset_file_abs) ==
            IF ~asset_file_abs.ok
            THEN Err(<<"CannotCanonicalizeFile", asset_file_abs.err>>)
            ELSE named(asset_file_abs.val, path_to_str(asset_file_abs.val))
    IN  canonical(canonicalize(asset_file))

\* generate_static_handler (lines 559-605)
generate_static_handler(asset_file, should_compress, cache_busted) ==
    LET route(asset_file_abs_str, info) ==
            IF ~info.ok THEN info
            ELSE Ok([path |-> None,
                     content_type |-> info.val.content_type,
                     etag |-> info.val.etag_str,
                     body |-> info.val.lit_byte_str_contents,
                     body_gz |-> info.val.maybe_gzip,
                     body_zst |-> info.val.maybe_zstd,
                     cache_busted |-> info.val.cache_busted,
                     include_bytes |-> asset_file_abs_str])
        named(asset_file_abs, asset_file_abs_str) ==
            IF IsNone(asset_file_abs_str) THEN Err(<<"FilePathIsNotUtf8">>)
            ELSE route(Unwrap(asset_file_abs_str),
                       from_path(asset_file_abs, None, should_compress,
                                 FALSE, cache_busted))
        canonical(asset_file_abs) ==
            IF ~asset_file_abs.ok
            THEN Err(<<"CannotCanonicalizeFile", asset_file_abs.err>>)
            ELSE named(asset_file_abs.val, path_to_str(asset_file_abs.val))
    IN  canonical(canonicalize(asset_file))

\* parse_macro_input!(input as EmbedAsset) (line 36)
ParseAsset ==
    /\ phase = "Input"
    /\ opts.macro = "embed_asset"
    /\ LET finish(parsed) ==
               IF parsed.ok
               THEN /\ valid' = parsed.val
                    /\ phase' = "Parsed"
                    /\ error' = None
               ELSE /\ valid' = <<>>
                    /\ phase' = "Failed"
                    /\ error' = Some(parsed.err)
       IN  finish(EmbedAsset_parse(opts))
    /\ UNCHANGED <<fs, oracle, opts, todo, routes>>
    /\ UNCHANGED <<reqVars, concVars>>

\* EmbedAsset::to_tokens (lines 134-154)
ExpandAsset ==
    /\ phase = "Parsed"
    /\ opts.macro = "embed_asset"
    /\ LET finish(result) ==
               IF result.ok
               THEN /\ routes' = <<result.val>>
                    /\ phase' = "Done"
                    /\ error' = None
               ELSE /\ routes' = <<>>
                    /\ phase' = "Failed"
                    /\ error' = Some(result.err)
       IN  finish(generate_static_handler(valid.asset_file,
                                          valid.should_compress,
                                          valid.cache_busted))
    /\ UNCHANGED <<fs, oracle, opts, valid, todo>>
    /\ UNCHANGED <<reqVars, concVars>>


\* the working directory and the names in it
W == <<"w">>
A_js == <<"a", ".", "j", "s">>
NoSuchName == <<"n", "o", "n", "e">>

\* byte values a digest is drawn from
DigestBytes == {0, 1, 171, 255}

\* 20-byte digests: the first block, the second block, the last four bytes
Digests ==
    { <<a, b, 0, 0, 0, 0, 0, c>> \o <<d, 0, 0, 0, 0, 0, 0, e>>
        \o <<f, f, f, f>> :
        a \in DigestBytes, b \in DigestBytes, c \in DigestBytes,
        d \in DigestBytes, e \in DigestBytes, f \in {0, 255} }

\* a digest for the runs that do not vary it
PlainDigest(contents) ==
    [i \in 1..20 |->
        (7 * Len(contents) + i
           + (IF Len(contents) > 0 THEN 100 * contents[1] ELSE 0)) % 256]

\* `key = value` lists of embed_asset!: each key given or omitted, a key
\* given twice, a key the macro does not know
AssetArgs ==
    { c \o b : c \in {<<>>, << <<"compress", TRUE>> >>,
                      << <<"compress", FALSE>> >>},
               b \in {<<>>, << <<"cache_bust", TRUE>> >>} }
    \cup { << <<"compress", TRUE>>, <<"compress", FALSE>> >>,
           << <<"minify", TRUE>> >> }

\* the macro starts on its input: nothing parsed, nothing emitted
BuildStart ==
    /\ phase = "Input"
    /\ valid = <<>>
    /\ todo = {}
    /\ routes = <<>>
    /\ error = None
    /\ desc = NoDescriptor
    /\ NoHandling
    /\ NoRouter

\* one file w/a.js of n bytes beside embed_asset!'s invocation; the codecs
\* give g and z bytes for it and SHA-1 gives digest
OneFile(n, g, z, digest) ==
    LET contents == Repeat(0, n)
    IN  /\ fs = (<<W>> :> DirNode) @@ (<<W, A_js>> :> FileNode(contents))
        /\ oracle = [gzip |-> (contents :> Ok(Repeat(2, g))),
                     zstd |-> (contents :> Ok(Repeat(3, z))),
                     sha1 |-> (contents :> digest)]

\* embed_asset! on a file of every length with codec output of every
\* length, on a file of every digest, on a directory and on a missing path
InitFile ==
    /\ \/ /\ \E n \in 0..MaxRaw, g \in 0..MaxCompressed,
                z \in 0..MaxCompressed :
                  OneFile(n, g, z, PlainDigest(Repeat(0, n)))
          /\ opts \in {[macro |-> "embed_asset", path |-> <<W, A_js>>,
                        args |-> a] : a \in AssetArgs}
       \/ /\ \E n \in 0..1, digest \in Digests : OneFile(n, 0, 0, digest)
          /\ opts \in {[macro |-> "embed_asset", path |-> <<W, A_js>>,
                        args |-> a] :
                         a \in {<<>>, << <<"compress", TRUE>> >>}}
       \/ /\ OneFile(0, 0, 0, PlainDigest(<<>>))
          /\ opts \in {[macro |-> "embed_asset", path |-> p, args |-> <<>>] :
                         p \in {<<W>>, <<W, NoSuchName>>}}
    /\ BuildStart

NextFile == ParseAsset \/ ExpandAsset

SpecFile == InitFile /\ [][NextFile]_vars

-----------------------------------------------------------------------------
(* embed_assets!: every file below a directory becomes a route.            *)

\* AssetsDir::parse (lines 269-303)
AssetsDir_parse(literal) ==
    LET checked(meta) ==
            IF ~meta.ok /\ meta.err = "NotFound"
            THEN Err("The specified assets directory does not exist")
            ELSE IF ~meta.ok THEN Err("Error reading directory")
            ELSE IF meta.val.kind # "dir"
            THEN Err("The specified assets directory is not a directory")
            ELSE Ok(literal)
    IN  checked(metadata(literal))

\* variant: an ignore entry of any kind is taken
RECURSIVE validate_ignore_dirs_any_kind(_, _)
validate_ignore_dirs_any_kind(ignore_dirs, assets_dir) ==
    LET pushed(full_path, rest) ==
            IF rest.ok THEN Ok(<<full_path>> \o rest.val) ELSE rest
        checked(full_path, meta) ==
            IF FALSE
            THEN Err("The specified ignored directory is not a directory")
            ELSE IF meta.ok
            THEN pushed(full_path,
                        validate_ignore_dirs_any_kind(Tail(ignore_dirs), assets_dir))
            ELSE IF meta.err = "NotFound"
            THEN Err("The specified ignored directory does not exist")
            ELSE Err("Error reading ignored directory")
        joined(full_path) == checked(full_path, metadata(full_path))
    IN  IF Len(ignore_dirs) = 0 THEN Ok(<<>>)
        ELSE joined(join(assets_dir, Head(ignore_dirs)))

\* validate_ignore_dirs (lines 317-351): the first bad entry ends it
RECURSIVE validate_ignore_dirs(_, _)
validate_ignore_dirs(ignore_dirs, assets_dir) ==
    LET pushed(full_path, rest) ==
            IF rest.ok THEN Ok(<<full_path>> \o rest.val) ELSE rest
        checked(full_path, meta) ==
            IF meta.ok /\ meta.val.kind # "dir"
            THEN Err("The specified ignored directory is not a directory")
            ELSE IF meta.ok
            THEN pushed(full_path,
                        validate_ignore_dirs(Tail(ignore_dirs), assets_dir))
            ELSE IF meta.err = "NotFound"
            THEN Err("The specified ignored directory does not exist")
            ELSE Err("Error reading ignored directory")
        joined(full_path) == checked(full_path, metadata(full_path))
    IN  IF Len(ignore_dirs) = 0 THEN Ok(<<>>)
        ELSE joined(join(assets_dir, Head(ignore_dirs)))

\* validate_cache_busted_paths (lines 393-431)
RECURSIVE validate_cache_busted_paths(_, _)
validate_cache_busted_paths(tuples, assets_dir) ==
    LET pushed(full_path, meta, rest) ==
            IF ~rest.ok THEN rest
            ELSE IF meta.val.kind = "dir"
            THEN Ok([dirs |-> <<full_path>> \o rest.val.dirs,
                     files |-> rest.val.files])
            ELSE Ok([dirs |-> rest.val.dirs,
                     files |-> <<full_path>> \o rest.val.files])
        checked(full_path, meta) ==
            IF meta.ok
            THEN pushed(full_path, meta,
                        validate_cache_busted_paths(Tail(tuples), assets_dir))
            ELSE IF meta.err = "NotFound"
            THEN Err("The specified directory for cache busting does not exist")
            ELSE Err("Error reading path")
        joined(full_path) == checked(full_path, metadata(full_path))
    IN  IF Len(tuples) = 0 THEN Ok([dirs |-> <<>>, files |-> <<>>])
        ELSE joined(join(assets_dir, Head(tuples)))

EmbedAssetsKeys ==
    {"compress", "ignore_dirs", "strip_html_ext", "cache_busted_paths"}

\* EmbedAssets::parse (lines 164-235)
EmbedAssets_parse(input) ==
    LET parsed(assets_dir, validated_ignore_dirs, cache_busted_paths) ==
            IF ~cache_busted_paths.ok THEN cache_busted_paths
            ELSE Ok([assets_dir |-> assets_dir,
                     validated_ignore_dirs |-> validated_ignore_dirs,
                     should_compress |->
                         LastArg(input.args, "compress", FALSE),
                     should_strip_html_ext |->
                         LastArg(input.args, "strip_html_ext", FALSE),
                     cache_busted_paths |-> cache_busted_paths.val])
        ignoring(assets_dir, validated_ignore_dirs) ==
            IF ~validated_ignore_dirs.ok THEN validated_ignore_dirs
            ELSE parsed(assets_dir, validated_ignore_dirs.val,
                     validate_cache_busted_paths(
                         LastArg(input.args, "cache_busted_paths", <<>>),
                         assets_dir))
        keys(assets_dir) ==
            IF ~assets_dir.ok THEN assets_dir
            ELSE IF UnknownKeys(input.args, EmbedAssetsKeys) # {}
            THEN Err("Unknown key in embed_assets! macro.")
            ELSE ignoring(assets_dir.val,
                     validate_ignore_dirs(
                         LastArg(input.args, "ignore_dirs", <<>>),
                         assets_dir.val))
    IN  keys(AssetsDir_parse(input.path))

\* paths.iter().map(canonicalize).collect::<Result<Vec<_>, _>>(): the
\* canonical paths, or the first failure under the given error name
RECURSIVE canonicalize_all(_, _)
canonicalize_all(paths, error_name) ==
    LET pushed(canon, rest) ==
            IF ~rest.ok THEN rest ELSE Ok(<<canon>> \o rest.val)
        checked(canon) ==
            IF ~canon.ok THEN Err(<<error_name, canon.err>>)
            ELSE pushed(canon.val, canonicalize_all(Tail(paths), error_name))
    IN  IF Len(paths) = 0 THEN Ok(<<>>)
        ELSE checked(canonicalize(Head(paths)))

Elements(seq) == {seq[i] : i \in DOMAIN seq}

\* the locals generate_static_routes sets before its loop (lines 460-483)
canonical_config(parsed) ==
    LET files(assets_dir_abs, assets_dir_abs_str, canon_ignore_dirs,
              canon_cache_busted_dirs, canon_cache_busted_files) ==
            IF ~canon_cache_busted_files.ok THEN canon_cache_busted_files
            ELSE Ok([assets_dir_abs |-> assets_dir_abs,
                     assets_dir_abs_str |-> assets_dir_abs_str,
                     canon_ignore_dirs |-> canon_ignore_dirs,
                     canon_cache_busted_dirs |-> canon_cache_busted_dirs,
                     canon_cache_busted_files |->
                         canon_cache_busted_files.val])
        dirs(assets_dir_abs, assets_dir_abs_str, canon_ignore_dirs,
             canon_cache_busted_dirs) ==
            IF ~canon_cache_busted_dirs.ok THEN canon_cache_busted_dirs
            ELSE files(assets_dir_abs, assets_dir_abs_str, canon_ignore_dirs,
                       canon_cache_busted_dirs.val,
                       canonicalize_all(parsed.cache_busted_paths.files,
                                        "CannotCanonicalizeFile"))
        ignores(assets_dir_abs, assets_dir_abs_str, canon_ignore_dirs) ==
            IF ~canon_ignore_dirs.ok THEN canon_ignore_dirs
            ELSE dirs(assets_dir_abs, assets_dir_abs_str,
                      canon_ignore_dirs.val,
                      canonicalize_all(parsed.cache_busted_paths.dirs,
                                       "CannotCanonicalizeCacheBustedDir"))
        named(assets_dir_abs, assets_dir_abs_str) ==
            IF IsNone(assets_dir_abs_str)
            THEN Err(<<"InvalidUnicodeInDirectoryName">>)
            ELSE ignores(assets_dir_abs, Unwrap(assets_dir_abs_str),
                         canonicalize_all(parsed.validated_ignore_dirs,
                                          "CannotCanonicalizeIgnoreDir"))
        root(assets_dir_abs) ==
            IF ~assets_dir_abs.ok
            THEN Err(<<"CannotCanonicalizeDirectory", assets_dir_abs.err>>)
            ELSE named(assets_dir_abs.val, path_to_str(assets_dir_abs.val))
    IN  root(canonicalize(parsed.assets_dir))

\* the ignore test of the loop (lines 493-499)
is_ignored(entry, canon_ignore_dirs) ==
    \E i \in DOMAIN canon_ignore_dirs :
        path_starts_with(entry, canon_ignore_dirs[i])

\* is_entry_cache_busted of the loop (lines 501-508)
is_entry_cache_busted(entry, canon_cache_busted_dirs, canon_cache_busted_files) ==
    \/ \E i \in DOMAIN canon_cache_busted_dirs :
          path_starts_with(entry, canon_cache_busted_dirs[i])
    \/ entry \in Elements(canon_cache_busted_files)

\* one pass of the loop (lines 487-546) for a glob entry: an error, nothing
\* (the entry is skipped), or the route pushed
route_entry(entry, parsed, config) ==
    LET pushed(entry_str, info) ==
            IF ~info.ok THEN info
            ELSE Ok(Some([path |-> info.val.entry_path,
                          content_type |-> info.val.content_type,
                          etag |-> info.val.etag_str,
                          body |-> info.val.lit_byte_str_contents,
                          body_gz |-> info.val.maybe_gzip,
                          body_zst |-> info.val.maybe_zstd,
                          cache_busted |-> info.val.cache_busted,
                          include_bytes |-> entry_str]))
        named(canon, entry_str, is_cache_busted) ==
            IF IsNone(entry_str) THEN Err(<<"FilePathIsNotUtf8">>)
            ELSE pushed(Unwrap(entry_str),
                        from_path(canon, Some(config.assets_dir_abs_str),
                                  parsed.should_compress,
                                  parsed.should_strip_html_ext,
                                  is_cache_busted))
        kept(canon, is_cache_busted) ==
            IF ~canon.ok THEN Err(<<"CannotCanonicalizeFile", canon.err>>)
            ELSE named(canon.val, path_to_str(canon.val), is_cache_busted)
        found(meta) ==
            IF ~meta.ok THEN Err(<<"CannotGetMetadata", meta.err>>)
            ELSE IF meta.val.kind = "dir" THEN Ok(None)
            ELSE IF is_ignored(entry, config.canon_ignore_dirs) THEN Ok(None)
            ELSE kept(canonicalize(entry),
                      is_entry_cache_busted(entry,
                          config.canon_cache_busted_dirs,
                          config.canon_cache_busted_files))
    IN  found(metadata(entry))

\* parse_macro_input!(input as EmbedAssets) (line 29)
ParseAssets ==
    /\ phase = "Input"
    /\ opts.macro = "embed_assets"
    /\ LET finish(parsed) ==
               IF parsed.ok
               THEN /\ valid' = parsed.val
                    /\ phase' = "Parsed"
                    /\ error' = None
               ELSE /\ valid' = <<>>
                    /\ phase' = "Failed"
                    /\ error' = Some(parsed.err)
       IN  finish(EmbedAssets_parse(opts))
    /\ UNCHANGED <<fs, oracle, opts, todo, routes>>
    /\ UNCHANGED <<reqVars, concVars>>

\* EmbedAssets::to_tokens enters generate_static_routes, which runs up to
\* its glob call (lines 237-251, 460-486)
StartRoutes ==
    /\ phase = "Parsed"
    /\ opts.macro = "embed_assets"
    /\ LET walk(config) ==
               IF config.ok
               THEN /\ todo' = glob(config.val.assets_dir_abs)
                    /\ phase' = "Walking"
                    /\ error' = None
               ELSE /\ todo' = {}
                    /\ phase' = "Failed"
                    /\ error' = Some(config.err)
       IN  walk(canonical_config(valid))
    /\ UNCHANGED <<fs, oracle, opts, valid, routes>>
    /\ UNCHANGED <<reqVars, concVars>>

\* variant: is_entry_cache_busted is declared before the loop and stays
\* true once an entry has set it
RouteEntry_sticky ==
    /\ phase = "Walking"
    /\ \E entry \in todo :
          \E result \in {route_entry(entry, valid,
                                     canonical_config(valid).val)} :
              IF ~result.ok
              THEN /\ routes' = <<>>
                   /\ todo' = {}
                   /\ phase' = "Failed"
                   /\ error' = Some(result.err)
              ELSE /\ routes' =
                        IF IsSome(result.val)
                        THEN Append(routes,
                                 [Unwrap(result.val) EXCEPT !.cache_busted =
                                     \/ @
                                     \/ \E i \in DOMAIN routes :
                                           routes[i].cache_busted])
                        ELSE routes
                   /\ todo' = todo \ {entry}
                   /\ UNCHANGED <<phase, error>>
    /\ UNCHANGED <<fs, oracle, opts, valid>>
    /\ UNCHANGED <<reqVars, concVars>>

\* variant: a failure keeps the routes pushed so far
RouteEntry_partial ==
    /\ phase = "Walking"
    /\ \E entry \in todo :
          \E result \in {route_entry(entry, valid,
                                     canonical_config(valid).val)} :
              IF ~result.ok
              THEN /\ todo' = {}
                   /\ phase' = "Failed"
                   /\ error' = Some(result.err)
                   /\ UNCHANGED routes
              ELSE /\ routes' = IF IsSome(result.val)
                                THEN Append(routes, Unwrap(result.val))
                                ELSE routes
                   /\ todo' = todo \ {entry}
                   /\ UNCHANGED <<phase, error>>
    /\ UNCHANGED <<fs, oracle, opts, valid>>
    /\ UNCHANGED <<reqVars, concVars>>

\* one pass of the loop over the glob's entries; a failure returns from
\* generate_static_routes and drops the routes pushed so far
RouteEntry ==
    /\ phase = "Walking"
    /\ \E entry \in todo :
          \E result \in {route_entry(entry, valid,
                                     canonical_config(valid).val)} :
              IF ~result.ok
              THEN /\ routes' = <<>>
                   /\ todo' = {}
                   /\ phase' = "Failed"
                   /\ error' = Some(result.err)
              ELSE /\ routes' = IF IsSome(result.val)
                                THEN Append(routes, Unwrap(result.val))
                                ELSE routes
                   /\ todo' = todo \ {entry}
                   /\ UNCHANGED <<phase, error>>
    /\ UNCHANGED <<fs, oracle, opts, valid>>
    /\ UNCHANGED <<reqVars, concVars>>

\* the loop is over: static_router is emitted with the routes (lines
\* 549-556)
FinishRoutes ==
    /\ phase = "Walking"
    /\ todo = {}
    /\ phase' = "Done"
    /\ UNCHANGED <<fs, oracle, opts, valid, todo, routes, error>>
    /\ UNCHANGED <<reqVars, concVars>>

\* the names of the asset trees
R_dir == <<"r">>
D_dir == <<"d">>
E_dir == <<"e">>
L_link == <<"l">>
K_js == <<"k", ".", "j", "s">>
C_js == <<"c", ".", "j", "s">>
I_html == <<"i", ".", "h", "t", "m", "l">>

\* r/a.js, r/d/a.js, r/d/i.html with the bytes of r/a.js, and r/e/c.js, a
\* file long enough to compress
PlainTree ==
    (<<R_dir>> :> DirNode)
    @@ (<<R_dir, A_js>> :> FileNode(<<0>>))
    @@ (<<R_dir, D_dir>> :> DirNode)
    @@ (<<R_dir, D_dir, A_js>> :> FileNode(<<1>>))
    @@ (<<R_dir, D_dir, I_html>> :> FileNode(<<0>>))
    @@ (<<R_dir, E_dir>> :> DirNode)
    @@ (<<R_dir, E_dir, C_js>> :> FileNode(Repeat(0, 10)))

\* r/l is a symbolic link to the directory r/d
DirLinkTree ==
    (<<R_dir>> :> DirNode)
    @@ (<<R_dir, A_js>> :> FileNode(<<0>>))
    @@ (<<R_dir, D_dir>> :> DirNode)
    @@ (<<R_dir, D_dir, A_js>> :> FileNode(<<1>>))
    @@ (<<R_dir, L_link>> :> LinkNode(<<R_dir, D_dir>>))

\* r/k.js is a symbolic link to the file r/d/a.js
FileLinkTree ==
    (<<R_dir>> :> DirNode)
    @@ (<<R_dir, A_js>> :> FileNode(<<0>>))
    @@ (<<R_dir, D_dir>> :> DirNode)
    @@ (<<R_dir, D_dir, A_js>> :> FileNode(<<1>>))
    @@ (<<R_dir, K_js>> :> LinkNode(<<R_dir, D_dir, A_js>>))

Trees == {PlainTree, DirLinkTree, FileLinkTree}

FileContents(tree) ==
    {tree[p].contents : p \in {q \in DOMAIN tree : tree[q].kind = "file"}}

\* the codecs and SHA-1 on the contents of a tree: gzip gives a fifth of the
\* length, zstd nine tenths
TreeOracle(tree) ==
    [gzip |-> [c \in FileContents(tree) |-> Ok(Repeat(2, Len(c) \div 5))],
     zstd |-> [c \in FileContents(tree) |->
                  Ok(Repeat(3, (9 * Len(c)) \div 10))],
     sha1 |-> [c \in FileContents(tree) |-> PlainDigest(c)]]

\* one `key = value` argument, given or omitted
OptionalArg(key, values) == {<<>>} \cup {<< <<key, v>> >> : v \in values}

\* the path lists given as ignore_dirs, relative to the assets directory
IgnoreLists ==
    { << <<D_dir>> >>, << <<D_dir>>, <<E_dir>> >>, << <<Dot>> >>,
      << <<A_js>> >>, << <<NoSuchName>> >>, << <<L_link>> >> }

\* the path lists given as cache_busted_paths
CacheBustedLists ==
    { << <<D_dir>> >>, << <<A_js>> >>, << <<Dot>> >>, << <<NoSuchName>> >>,
      << <<D_dir, A_js>> >>, << <<L_link>> >>, << <<K_js>> >>,
      << <<E_dir>>, <<A_js>> >> }

\* `key = value` lists of embed_assets!
AssetsArgs ==
    { i \o b \o c \o h :
        i \in OptionalArg("ignore_dirs", IgnoreLists),
        b \in OptionalArg("cache_busted_paths", CacheBustedLists),
        c \in OptionalArg("compress", {TRUE}),
        h \in OptionalArg("strip_html_ext", {TRUE}) }
    \cup { << <<"compress", FALSE>> >>,
           << <<"ignore_paths", << <<A_js>> >> >> >> }

\* embed_assets! on each tree with every argument list, and on a path that
\* is missing or a file
InitDir ==
    /\ fs \in Trees
    /\ oracle = TreeOracle(fs)
    /\ \/ opts \in {[macro |-> "embed_assets", path |-> <<R_dir>>,
                     args |-> a] : a \in AssetsArgs}
       \/ opts \in {[macro |-> "embed_assets", path |-> p, args |-> <<>>] :
                      p \in {<<R_dir, A_js>>, <<NoSuchName>>}}
    /\ BuildStart

NextDir == ParseAssets \/ StartRoutes \/ RouteEntry \/ FinishRoutes

SpecDir == InitDir /\ [][NextDir]_vars

\* both macros
InitBuild == InitFile \/ InitDir

NextBuild == NextFile \/ NextDir

SpecBuild == InitBuild /\ [][NextBuild]_vars

-----------------------------------------------------------------------------
(* A crate invokes the macros several times over the same files, and the   *)
(* code they emit registers its descriptors when the program runs.         *)

\* r/a.js and r/d/i.html hold the same ten bytes, r/d/b.js another byte
B_js == <<"b", ".", "j", "s">>

TwinTree ==
    (<<R_dir>> :> DirNode)
    @@ (<<R_dir, A_js>> :> FileNode(Repeat(0, 10)))
    @@ (<<R_dir, D_dir>> :> DirNode)
    @@ (<<R_dir, D_dir, I_html>> :> FileNode(Repeat(0, 10)))
    @@ (<<R_dir, D_dir, B_js>> :> FileNode(<<1>>))

\* the codecs as in TreeOracle; SHA-1 also on what the codecs give
TwinOracle ==
    LET plain == TreeOracle(TwinTree)
        outputs == {plain.gzip[c].val : c \in FileContents(TwinTree)}
                   \cup {plain.zstd[c].val : c \in FileContents(TwinTree)}
    IN  [gzip |-> plain.gzip,
         zstd |-> plain.zstd,
         sha1 |-> [c \in FileContents(TwinTree) \cup outputs |->
                      PlainDigest(c)]]

\* the invocations of the crate
TwinInvocations ==
    {[macro |-> "embed_asset", path |-> <<R_dir, A_js>>, args |-> a] :
        a \in {<<>>, << <<"compress", TRUE>>, <<"cache_bust", TRUE>> >>}}
    \cup
    {[macro |-> "embed_asset", path |-> <<R_dir, D_dir, I_html>>,
      args |-> <<>>]}
    \cup
    {[macro |-> "embed_assets", path |-> <<R_dir>>, args |-> a] :
        a \in {<<>>,
               << <<"compress", TRUE>> >>,
               << <<"cache_busted_paths", << <<D_dir>> >> >>,
                  <<"strip_html_ext", TRUE>> >>,
               << <<"compress", TRUE>>,
                  <<"cache_busted_paths", << <<Dot>> >> >> >>}}

\* static_route / static_method_router take the arguments an emitted call
\* passes (lines 80-148): the descriptor the handler will serve
descriptor_of(route) ==
    [content_type |-> route.content_type, etag |-> route.etag,
     body |-> route.body, body_gz |-> route.body_gz,
     body_zst |-> route.body_zst, cache_busted |-> route.cache_busted]

\* the program runs an emitted call
Register ==
    /\ phase = "Done"
    /\ \E r \in {routes[i] : i \in DOMAIN routes} : desc' = descriptor_of(r)
    /\ UNCHANGED <<pc, req, extracted, resp_base, selected, range_arg, resp,
                   visited, outcomes>>
    /\ UNCHANGED <<buildVars, concVars>>

\* the compiler expands the crate's next invocation
Invoke ==
    /\ phase \in {"Done", "Failed"}
    /\ opts' \in TwinInvocations
    /\ phase' = "Input"
    /\ valid' = <<>>
    /\ todo' = {}
    /\ routes' = <<>>
    /\ error' = None
    /\ UNCHANGED <<fs, oracle>>
    /\ UNCHANGED <<reqVars, concVars>>

InitTwice ==
    /\ fs = TwinTree
    /\ oracle = TwinOracle
    /\ opts \in TwinInvocations
    /\ BuildStart

NextTwice == NextBuild \/ Register \/ Invoke

SpecTwice == InitTwice /\ [][NextTwice]_vars

-----------------------------------------------------------------------------
(* What the build-time claims speak of *)

Expanded == phase = "Done"

Emitted == {routes[i] : i \in DOMAIN routes}

\* the bytes each codec gave for a body
GzipOutput(body) == oracle.gzip[body].val
ZstdOutput(body) == oracle.zstd[body].val

\* len(c) < 0.9 * len(b), in whole numbers
Below90Percent(c, b) == 10 * Len(c) < 9 * Len(b)

\* the compress option as the macro reads it
CompressRequested == LastArg(opts.args, "compress", FALSE)

\* C12: a gzip or zstd variant that a descriptor holds is the codec's output
\* and is strictly smaller than 90% of the raw body; a codec output of 90%
\* of the raw size or more is never held.
C12_SignificantOnly ==
    \A r \in Emitted :
        /\ IsSome(r.body_gz) =>
              /\ Unwrap(r.body_gz) = GzipOutput(r.body)
              /\ Below90Percent(Unwrap(r.body_gz), r.body)
        /\ IsSome(r.body_zst) =>
              /\ Unwrap(r.body_zst) = ZstdOutput(r.body)
              /\ Below90Percent(Unwrap(r.body_zst), r.body)
        /\ CompressRequested /\ ~Below90Percent(GzipOutput(r.body), r.body)
              => IsNone(r.body_gz)
        /\ CompressRequested /\ ~Below90Percent(ZstdOutput(r.body), r.body)
              => IsNone(r.body_zst)

\* a 10-byte file whose gzip output of 8 bytes is held and whose zstd
\* output of 9 bytes, exactly 90%, is not
C12_Witness ==
    /\ Expanded
    /\ \E r \in Emitted :
          /\ Len(r.body) = 10
          /\ IsSome(r.body_gz) /\ Len(Unwrap(r.body_gz)) = 8
          /\ IsNone(r.body_zst) /\ Len(ZstdOutput(r.body)) = 9

\* C13: when compression is requested, for each codec on its own, the
\* variant is held if and only if len(c) < 0.9 * len(b).
C13_IncludedIff ==
    Expanded /\ CompressRequested =>
        \A r \in Emitted :
            /\ IsSome(r.body_gz) <=> Below90Percent(GzipOutput(r.body), r.body)
            /\ IsSome(r.body_zst) <=> Below90Percent(ZstdOutput(r.body), r.body)

HexValue(code) == IF code <= 57 THEN code - 48 ELSE code - 87

IsLowerHex(code) == code \in 48..57 \/ code \in 97..102

\* C16: the etag is 18 characters, a double quote, 16 lower-case
\* hexadecimal digits and a double quote; the digits are the 64-bit XOR of
\* the digest's first and second 8-byte blocks, each block read least
\* significant byte first, written from the most significant digit.
C16_EtagFormat ==
    \A r \in Emitted :
        LET sha == oracle.sha1[r.body]
        IN  /\ Len(r.etag) = 18
            /\ r.etag[1] = 34 /\ r.etag[18] = 34
            /\ \A i \in 2..17 : IsLowerHex(r.etag[i])
            /\ \A k \in 1..8 :
                  16 * HexValue(r.etag[2 * (8 - k) + 2])
                     + HexValue(r.etag[2 * (8 - k) + 3])
                  = Xor(sha[k], sha[k + 8])

\* an etag that needs its padding (the top byte of the XOR is zero) and
\* holds a letter digit
C16_Witness ==
    /\ Expanded
    /\ \E r \in Emitted :
          /\ r.etag[2] = 48 /\ r.etag[3] = 48
          /\ \E i \in 4..17 : r.etag[i] >= 97

-----------------------------------------------------------------------------
(* Directory mode: ignore rules, validation, cache-busted rules *)

DirectoryMode == opts.macro = "embed_assets"

\* the paths a list argument configures, joined to the assets directory
Configured(key) ==
    LET list == LastArg(opts.args, key, <<>>)
    IN  [i \in DOMAIN list |-> join(opts.path, list[i])]

\* the regular files below the assets directory, by their own path
FilesUnderRoot ==
    {p \in DOMAIN fs : fs[p].kind = "file" /\ IsPrefix(opts.path, p)}

\* the file lies below the place the configured path leads to
LiesUnder(file, configured) ==
    canonicalize(configured).ok
    /\ path_starts_with(file, canonicalize(configured).val)

UnderIgnoreDirectory(file) ==
    \E i \in DOMAIN Configured("ignore_dirs") :
        LiesUnder(file, Configured("ignore_dirs")[i])

\* the routes emitted for a file
RoutesOf(file) == {r \in Emitted : r.include_bytes = PathText(file)}

\* C17: in directory mode a regular file under a configured ignore
\* directory has no route, every other regular file under the root has
\* one, and when every file is under an ignore directory there is no route.
C17_IgnoredAbsent ==
    DirectoryMode /\ Expanded =>
        /\ \A file \in FilesUnderRoot :
              UnderIgnoreDirectory(file) <=> RoutesOf(file) = {}
        /\ (\A file \in FilesUnderRoot : UnderIgnoreDirectory(file))
              => routes = <<>>

\* the ignore list as either spelling of the key gives it
IgnoreEntries ==
    LastArg(opts.args, "ignore_dirs", <<>>)
        \o LastArg(opts.args, "ignore_paths", <<>>)

\* C18: an ignore entry naming a regular file under the root is accepted
\* and excludes exactly that file: the expansion does not fail, the file
\* has no route, every other file has one, a file of the same name in a
\* subdirectory included.
C18_IgnoreFile ==
    /\ DirectoryMode
    /\ fs = PlainTree
    /\ IgnoreEntries = << <<A_js>> >>
    /\ Len(opts.args) = 1
    /\ phase # "Input"
    => /\ phase # "Failed"
       /\ Expanded =>
             /\ RoutesOf(<<R_dir, A_js>>) = {}
             /\ \A file \in FilesUnderRoot \ {<<R_dir, A_js>>} :
                   RoutesOf(file) # {}

RootInvalid == ~is_dir(opts.path)

IgnoreEntryInvalid ==
    \E i \in DOMAIN Configured("ignore_dirs") :
        ~is_dir(Configured("ignore_dirs")[i])

CacheBustedEntryMissing ==
    \E i \in DOMAIN Configured("cache_busted_paths") :
        ~metadata(Configured("cache_busted_paths")[i]).ok

IsDirectory(path) == is_dir(path)
IsNotDirectory(path) == ~is_dir(path)

CacheBustedByRule(file) ==
    \E i \in DOMAIN Configured("cache_busted_paths") :
        LET configured == Configured("cache_busted_paths")[i]
        IN  /\ canonicalize(configured).ok
            /\ IF is_dir(configured) THEN LiesUnder(file, configured)
               ELSE canonicalize(configured).val = file

\* C20: in directory mode the cache_busted flag of an emitted file is true
\* if and only if the file is under a configured cache-busted directory or
\* is a configured cache-busted file.
C20_CacheBustedIff ==
    DirectoryMode /\ Expanded =>
        \A file \in FilesUnderRoot :
            \A r \in RoutesOf(file) :
                r.cache_busted <=> CacheBustedByRule(file)

-----------------------------------------------------------------------------
(* Compression off, and the etag as a function of the bytes *)

\* C14: with compress false or omitted, in directory mode and in
\* single-file mode, no emitted descriptor has a gzip or a zstd variant.
C14_NoVariantsUnlessAsked ==
    ~CompressRequested =>
        \A r \in Emitted : IsNone(r.body_gz) /\ IsNone(r.body_zst)

\* compress = false is given and a file whose gzip output is well below
\* 90% is emitted without variants
C14_Witness ==
    /\ Expanded
    /\ opts.args = << <<"compress", FALSE>> >>
    /\ \E r \in Emitted :
          /\ Below90Percent(GzipOutput(r.body), r.body)
          /\ IsNone(r.body_gz) /\ IsNone(r.body_zst)

Registered == desc # NoDescriptor

\* C15: the etag depends on the raw bytes only: a descriptor emitted now and
\* one registered from any earlier expansion, of either macro with any
\* options, that hold the same body hold the same etag, and so do two
\* descriptors of one expansion.
C15_EtagOfBytesOnly ==
    \A r \in Emitted :
        /\ Registered /\ r.body = desc.body => r.etag = desc.etag
        /\ \A q \in Emitted : r.body = q.body => r.etag = q.etag

\* the same bytes under another content type, the other cache_busted flag
\* and the other compress option, emitted by the other macro
C15_Witness ==
    /\ Expanded
    /\ ~DirectoryMode
    /\ Registered
    /\ \E r \in Emitted :
          /\ r.body = desc.body
          /\ r.content_type # desc.content_type
          /\ r.cache_busted # desc.cache_busted
          /\ IsSome(r.body_gz) # IsSome(desc.body_gz)

-----------------------------------------------------------------------------
(* Concurrent requests against one router *)

\* number of requests in flight at once
NumRequests == 2

Requests == 1..NumRequests

\* the routes static_route registered (lines 80-113): each web path with
\* the descriptor its handler closure captured
Router ==
    ("/a.js" :> [content_type |-> "text/javascript",
                 etag |-> <<34, 97, 34>>, body |-> <<0, 1>>,
                 body_gz |-> Some(<<2>>), body_zst |-> Some(<<3>>),
                 cache_busted |-> TRUE])
    @@ ("/i.html" :> [content_type |-> "text/html",
                      etag |-> <<34, 98, 34>>, body |-> <<1>>,
                      body_gz |-> None, body_zst |-> None,
                      cache_busted |-> FALSE])

\* the header values of the concurrent requests: Accept-Encoding "gzip"
\* or "gzip, zstd"; If-None-Match absent or the etag "a"; Range absent or
\* bytes=0-0 (which makes the handler serve the raw bytes)
ConcRequests ==
    {[accept_encoding |-> ae, if_none_match |-> inm, range |-> range] :
        ae \in {Some(GzipToken),
                Some(GzipToken \o <<44, 32>> \o ZstdToken)},
        inm \in {None, Some(<<34, 97, 34>>)},
        range \in {None, Some(<<"Range", 0, 0>>)}}

\* a future of the handler closure that has not been created
NoFuture == [pc |-> "Start", route |-> "", req |-> NoRequest,
             extracted |-> NoExtract, resp_base |-> <<>>,
             selected |-> NoSelection, resp |-> None]

\* the handler closure is called for request i (lines 96-110): the
\* extractors run on the request's own parts and the StaticInnerData is
\* moved into static_inner
ConcReceive(i) ==
    /\ inflight[i].pc = "Start"
    /\ \E route \in DOMAIN table, r \in ConcRequests :
          inflight' = [inflight EXCEPT ![i] =
              [pc |-> "ConditionalCheck",
               route |-> route,
               req |-> r,
               extracted |->
                   [accept_encoding |->
                        AcceptEncoding_from_request_parts(r.accept_encoding),
                    if_none_match |->
                        IfNoneMatch_from_request_parts(r.if_none_match),
                    http_range |-> r.range],
               resp_base |-> <<>>,
               selected |-> NoSelection,
               resp |-> None]]
    /\ UNCHANGED table
    /\ UNCHANGED <<reqVars, buildVars>>

\* lines 180-200, in the future of request i
ConcConditionalCheck(i) ==
    /\ inflight[i].pc = "ConditionalCheck"
    /\ inflight' = [inflight EXCEPT ![i] =
          IF matches(inflight[i].extracted.if_none_match, table[inflight[i].route].etag)
          THEN [inflight[i] EXCEPT
                   !.resp_base = base_headers(table[inflight[i].route]),
                   !.resp = Some(not_modified_response(
                                     base_headers(table[inflight[i].route]))),
                   !.pc = "Respond"]
          ELSE [inflight[i] EXCEPT
                   !.resp_base = base_headers(table[inflight[i].route]),
                   !.pc = "EncodingSelect"]]
    /\ UNCHANGED table
    /\ UNCHANGED <<reqVars, buildVars>>

\* variant: the extracted Accept-Encoding is one value shared by the
\* futures, the one the first request left
ConcEncodingSelect_shared(i) ==
    /\ inflight[i].pc = "EncodingSelect"
    /\ inflight' = [inflight EXCEPT ![i] =
          [inflight[i] EXCEPT
              !.resp_base = ranged_base_headers(inflight[i].resp_base),
              !.selected = select_body(table[inflight[i].route],
                                       inflight[1].extracted.accept_encoding,
                                       inflight[i].extracted.http_range),
              !.pc = "RangeServe"]]
    /\ UNCHANGED table
    /\ UNCHANGED <<reqVars, buildVars>>

\* lines 202-220, in the future of request i
ConcEncodingSelect(i) ==
    /\ inflight[i].pc = "EncodingSelect"
    /\ inflight' = [inflight EXCEPT ![i] =
          [inflight[i] EXCEPT
              !.resp_base = ranged_base_headers(inflight[i].resp_base),
              !.selected = select_body(table[inflight[i].route],
                                       inflight[i].extracted.accept_encoding,
                                       inflight[i].extracted.http_range),
              !.pc = "RangeServe"]]
    /\ UNCHANGED table
    /\ UNCHANGED <<reqVars, buildVars>>

\* lines 222-230, in the future of request i
ConcRangeServe(i) ==
    /\ inflight[i].pc = "RangeServe"
    /\ inflight' = [inflight EXCEPT ![i] =
          [inflight[i] EXCEPT
              !.resp =
                  IF skips_range_serving(inflight[i].selected)
                  THEN Some(empty_body_response(inflight[i].resp_base,
                                                inflight[i].selected))
                  ELSE Some(range_response(
                           inflight[i].resp_base, inflight[i].selected,
                           serve_file_with_http_range(
                               inflight[i].selected.body,
                               inflight[i].extracted.http_range))),
              !.pc = "Respond"]]
    /\ UNCHANGED table
    /\ UNCHANGED <<reqVars, buildVars>>

\* the response of request i is handed to the framework and the future is
\* dropped
ConcComplete(i) ==
    /\ inflight[i].pc = "Respond"
    /\ inflight' = [inflight EXCEPT ![i] = NoFuture]
    /\ UNCHANGED table
    /\ UNCHANGED <<reqVars, buildVars>>

InitConc ==
    /\ table = Router
    /\ inflight = [i \in Requests |-> NoFuture]
    /\ desc = NoDescriptor
    /\ NoHandling
    /\ NoBuild

NextConc ==
    \E i \in Requests :
        \/ ConcReceive(i)
        \/ ConcConditionalCheck(i)
        \/ ConcEncodingSelect(i)
        \/ ConcRangeServe(i)
        \/ ConcComplete(i)

SpecConc == InitConc /\ [][NextConc]_vars

\* the response request i gets when it is the only request handled
HandledAlone(i) ==
    static_inner(table[inflight[i].route],
                 AcceptEncoding_from_request_parts(
                     inflight[i].req.accept_encoding),
                 IfNoneMatch_from_request_parts(
                     inflight[i].req.if_none_match),
                 inflight[i].req.range)

\* C11: under any interleaving of concurrently handled requests against
\* the same descriptors, the response of each request is the one it gets
\* when handled alone, a function of its descriptor and of its own
\* Accept-Encoding, If-None-Match and Range, and the router holds the
\* descriptors it was built with whatever steps the requests have taken.
C11_Isolation ==
    /\ \A i \in Requests :
          inflight[i].pc = "Respond" =>
              inflight[i].resp = Some(HandledAlone(i))
    /\ table = Router

\* two requests for the same route with different headers are in flight
\* together: one has its zstd response while the other, which will get
\* the gzip bytes, is still between two steps of the handler
C11_Witness ==
    \E i, j \in Requests :
        /\ i < j
        /\ inflight[i].route = "/a.js" /\ inflight[j].route = "/a.js"
        /\ inflight[j].pc = "Respond"
        /\ Unwrap(inflight[j].resp).headers["content-encoding"]
               = Some("zstd")
        /\ inflight[i].pc = "EncodingSelect"
        /\ inflight[i].req.accept_encoding = Some(GzipToken)
        /\ inflight[i].req.range = None

-----------------------------------------------------------------------------
(* Route paths, faults and prefixes: the trees of the walk                 *)

\* more names
O_dir == <<"o">>
AB_dir == <<"a", "b">>
ABCD_dir == <<"a", "b", "c", "d">>
ABCD_js == <<"a", "b", "c", "d", ".", "j", "s">>
X_js == <<"x", ".", "j", "s">>
H_html == <<"h", ".", "h", "t", "m", "l">>
INDEX_html == <<"i", "n", "d", "e", "x", ".", "h", "t", "m", "l">>
INDEX2_htm == <<"i", "n", "d", "e", "x", "2", ".", "h", "t", "m">>
A_html == <<"a", ".", "h", "t", "m", "l">>
A_htm == <<"a", ".", "h", "t", "m">>
N_bare == <<"n">>
X_zz == <<"x", ".", "z", "z">>
Y_raw == <<"y", ".", NonUnicode>>
U_js == <<"u", ".", "j", "s">>
G_js == <<"g", ".", "j", "s">>
F_js == <<"f", ".", "j", "s">>

\* r/index.html, r/index2.htm, r/a.js and r/d/index.html
HtmlTree ==
    (<<R_dir>> :> DirNode)
    @@ (<<R_dir, INDEX_html>> :> FileNode(<<0>>))
    @@ (<<R_dir, INDEX2_htm>> :> FileNode(<<1>>))
    @@ (<<R_dir, A_js>> :> FileNode(<<0, 0>>))
    @@ (<<R_dir, D_dir>> :> DirNode)
    @@ (<<R_dir, D_dir, INDEX_html>> :> FileNode(<<1, 1>>))

\* r/a.html beside r/a.htm
PairTree ==
    (<<R_dir>> :> DirNode)
    @@ (<<R_dir, A_html>> :> FileNode(<<0>>))
    @@ (<<R_dir, A_htm>> :> FileNode(<<1>>))

\* r/k.js and r/h.html are symbolic links to files of o, beside r
OutsideTree ==
    (<<R_dir>> :> DirNode)
    @@ (<<R_dir, A_js>> :> FileNode(<<0>>))
    @@ (<<R_dir, K_js>> :> LinkNode(<<O_dir, X_js>>))
    @@ (<<R_dir, H_html>> :> LinkNode(<<O_dir, H_html>>))
    @@ (<<O_dir>> :> DirNode)
    @@ (<<O_dir, X_js>> :> FileNode(<<1>>))
    @@ (<<O_dir, H_html>> :> FileNode(<<0, 0>>))

\* r/ab/a.js, r/abcd/x.js and r/abcd.js
PrefixTree ==
    (<<R_dir>> :> DirNode)
    @@ (<<R_dir, AB_dir>> :> DirNode)
    @@ (<<R_dir, AB_dir, A_js>> :> FileNode(<<0>>))
    @@ (<<R_dir, ABCD_dir>> :> DirNode)
    @@ (<<R_dir, ABCD_dir, X_js>> :> FileNode(<<1>>))
    @@ (<<R_dir, ABCD_js>> :> FileNode(<<0, 0>>))

\* r/a.js and r/d/a.js, two files that can be prepared
SoundTree ==
    (<<R_dir>> :> DirNode)
    @@ (<<R_dir, A_js>> :> FileNode(<<0>>))
    @@ (<<R_dir, D_dir>> :> DirNode)
    @@ (<<R_dir, D_dir, A_js>> :> FileNode(<<1>>))

\* the contents the gzip encoder cannot write and the zstd encoder cannot
\* finish
GzipFaulty == <<9>>
ZstdFaulty == <<8>>

\* SoundTree with one more entry, in r or in r/d, that cannot be prepared:
\* a name without extension, an extension without MIME type, a locked
\* file, contents a codec fails on, a link to nothing, and a name that is
\* not Unicode with a link to it
FaultTrees ==
    UNION {
      { SoundTree @@ (Append(dir, N_bare) :> FileNode(<<0>>)),
        SoundTree @@ (Append(dir, X_zz) :> FileNode(<<0>>)),
        SoundTree @@ (Append(dir, F_js) :> LockedNode),
        SoundTree @@ (Append(dir, F_js) :> FileNode(GzipFaulty)),
        SoundTree @@ (Append(dir, F_js) :> FileNode(ZstdFaulty)),
        SoundTree @@ (Append(dir, G_js) :> LinkNode(<<R_dir, NoSuchName>>)),
        SoundTree @@ (Append(dir, Y_raw) :> FileNode(<<0>>))
                  @@ (Append(dir, U_js) :> LinkNode(Append(dir, Y_raw))) }
      : dir \in {<<R_dir>>, <<R_dir, D_dir>>} }

\* r/d/x.zz cannot be typed and r/k.js is a symbolic link to it
FaultLinkTree ==
    SoundTree
    @@ (<<R_dir, D_dir, X_zz>> :> FileNode(<<0>>))
    @@ (<<R_dir, K_js>> :> LinkNode(<<R_dir, D_dir, X_zz>>))

WalkTrees ==
    {HtmlTree, PairTree, OutsideTree, PrefixTree, SoundTree, FaultLinkTree}
    \cup FaultTrees

\* the codecs as in TreeOracle, but for the contents they fail on
WalkOracle(tree) ==
    [gzip |-> [c \in FileContents(tree) |->
                  IF c = GzipFaulty THEN Err("CompressorWrite")
                  ELSE Ok(Repeat(2, Len(c) \div 5))],
     zstd |-> [c \in FileContents(tree) |->
                  IF c = ZstdFaulty THEN Err("EncoderFinish")
                  ELSE Ok(Repeat(3, (9 * Len(c)) \div 10))],
     sha1 |-> [c \in FileContents(tree) |-> PlainDigest(c)]]

\* the directories of a tree that the rules of the walk name
RuleDirs(tree) ==
    {dir \in {D_dir, AB_dir} : <<R_dir, dir>> \in DOMAIN tree}

\* `key = value` lists of embed_assets! for a tree: each rule given for one
\* directory or omitted, compress and strip_html_ext given or omitted
WalkArgs(tree) ==
    { i \o b \o c \o h :
        i \in OptionalArg("ignore_dirs",
                          {<< <<dir>> >> : dir \in RuleDirs(tree)}),
        b \in OptionalArg("cache_busted_paths",
                          {<< <<dir>> >> : dir \in RuleDirs(tree)}),
        c \in OptionalArg("compress", {TRUE}),
        h \in OptionalArg("strip_html_ext", {TRUE}) }

\* the paths of a tree a string literal can name: the entries of r and of
\* r/d that are not directories and whose names are Unicode
Literals(tree) ==
    {p \in DOMAIN tree :
        /\ tree[p].kind # "dir"
        /\ Head(p) = R_dir
        /\ IsUnicode(PathText(p))}

\* embed_assets! on r with each argument list, embed_asset! on each file
WalkInvocations(tree) ==
    {[macro |-> "embed_assets", path |-> <<R_dir>>, args |-> a] :
        a \in WalkArgs(tree)}
    \cup
    {[macro |-> "embed_asset", path |-> p, args |-> a] :
        p \in Literals(tree),
        a \in {<<>>, << <<"compress", TRUE>>, <<"cache_bust", TRUE>> >>,
                << <<"cache_bust", FALSE>> >>,
                << <<"ignore_dirs", << <<D_dir>> >> >> >>,
                << <<"strip_html_ext", TRUE>> >>}}

InitWalk ==
    /\ fs \in WalkTrees
    /\ oracle = WalkOracle(fs)
    /\ opts \in WalkInvocations(fs)
    /\ BuildStart

SpecWalk == InitWalk /\ [][NextBuild]_vars

-----------------------------------------------------------------------------
(* Route paths *)

StripRequested == LastArg(opts.args, "strip_html_ext", FALSE)

\* the components of a file's path after those of the assets directory
Relative(file) == SubSeq(file, Len(opts.path) + 1, Len(file))

\* a file name without a trailing .html or .htm
BaseName(name) ==
    IF IsSuffix(<<".", "h", "t", "m", "l">>, name)
    THEN SubSeq(name, 1, Len(name) - 5)
    ELSE IF IsSuffix(<<".", "h", "t", "m">>, name)
    THEN SubSeq(name, 1, Len(name) - 4)
    ELSE name

\* the route of an HTML file under the rewrite, from its directories and
\* its name: the directories and a slash for an index, else the base name
\* after the directories
RewrittenRoute(file) ==
    LET dirs == Parent(Relative(file))
        base == BaseName(file[Len(file)])
    IN  IF base = <<"i", "n", "d", "e", "x">>
        THEN PathText(dirs) \o <<"/">>
        ELSE PathText(Append(dirs, base))

\* C21: with strip_html_ext on, the route path of a text/html file is its
\* root-relative path without a trailing .html or .htm and, when what
\* remains ends in /index, without that index; a file of another content
\* type keeps its whole root-relative path.
C21_StrippedRoutes ==
    DirectoryMode /\ Expanded /\ StripRequested =>
        \A file \in FilesUnderRoot :
            \A r \in RoutesOf(file) :
                r.path = IF r.content_type = "text/html"
                         THEN Some(RewrittenRoute(file))
                         ELSE Some(PathText(Relative(file)))

\* r/index.html is routed at /, r/d/index.html at /d/, r/index2.htm at
\* /index2 and r/a.js at /a.js
C21_Witness ==
    /\ DirectoryMode /\ Expanded /\ StripRequested
    /\ \E r \in RoutesOf(<<R_dir, INDEX_html>>) : r.path = Some(<<"/">>)
    /\ \E r \in RoutesOf(<<R_dir, D_dir, INDEX_html>>) :
          r.path = Some(<<"/", "d", "/">>)
    /\ \E r \in RoutesOf(<<R_dir, INDEX2_htm>>) :
          r.path = Some(<<"/", "i", "n", "d", "e", "x", "2">>)
    /\ \E r \in RoutesOf(<<R_dir, A_js>>) :
          r.path = Some(<<"/", "a", ".", "j", "s">>)

\* C22: with strip_html_ext false or omitted, the route path of every file
\* is its canonical path without the canonical root: it starts with / and
\* keeps the extension, and no route / or /index is registered.
C22_PlainRoutes ==
    DirectoryMode /\ Expanded /\ ~StripRequested =>
        /\ \A file \in FilesUnderRoot :
              \A r \in RoutesOf(file) :
                  /\ r.path = Some(PathText(Relative(file)))
                  /\ Head(Unwrap(r.path)) = "/"
        /\ \A r \in Emitted :
              /\ r.path # Some(<<"/">>)
              /\ r.path # Some(<<"/", "i", "n", "d", "e", "x">>)

\* r/index.html is routed at /index.html
C22_Witness ==
    /\ DirectoryMode /\ Expanded /\ ~StripRequested
    /\ \E r \in RoutesOf(<<R_dir, INDEX_html>>) :
          r.path = Some(<<"/">> \o INDEX_html)
    /\ \E r \in RoutesOf(<<R_dir, D_dir, INDEX_html>>) :
          r.path = Some(<<"/", "d", "/">> \o INDEX_html)

\* the entries the glob lists for the assets directory that lead to
\* something outside of it
EntriesLeadingOutside ==
    {e \in glob(opts.path) :
        /\ canonicalize(e).ok
        /\ ~IsPrefix(canonicalize(opts.path).val, canonicalize(e).val)}

\* C23: in directory mode every emitted descriptor has a route path that
\* is present, not empty, begins with / and belongs to a file under the
\* assets root; an expansion that meets an entry leading outside the root
\* does not succeed.
C23_RootedRoutes ==
    DirectoryMode =>
        /\ \A r \in Emitted :
              /\ IsSome(r.path)
              /\ Len(Unwrap(r.path)) > 0
              /\ Head(Unwrap(r.path)) = "/"
              /\ IsPrefix(PathText(opts.path) \o <<"/">>, r.include_bytes)
        /\ Expanded => EntriesLeadingOutside = {}

-----------------------------------------------------------------------------
(* Content typing and failures *)

Finished == phase \in {"Done", "Failed"}

\* the files the expansion has to prepare, by canonical path: the asset
\* file of embed_asset!, and for embed_assets! what the entries of the glob
\* that are neither directories nor under an ignore directory lead to
Included ==
    IF DirectoryMode
    THEN {canonicalize(e).val :
            e \in {g \in glob(opts.path) :
                      /\ canonicalize(g).ok
                      /\ ~is_dir(g)
                      /\ ~UnderIgnoreDirectory(g)}}
    ELSE {canonicalize(p).val :
            p \in {q \in {opts.path} : canonicalize(q).ok /\ ~is_dir(q)}}

\* the extension of the file's name: none, one that is not text, one
\* without MIME type
Untyped(file) ==
    \/ IsNone(path_extension(file))
    \/ /\ IsUnicode(Unwrap(path_extension(file)))
       /\ IsNone(MimeFirstRaw(Unwrap(path_extension(file))))

NonTextExtension(file) ==
    /\ IsSome(path_extension(file))
    /\ ~IsUnicode(Unwrap(path_extension(file)))

\* the arguments were accepted, and every included file can be read and,
\* when asked for, compressed
AllReadable ==
    /\ valid # <<>>
    /\ \A file \in Included :
          /\ fs[file].kind = "file"
          /\ CompressRequested =>
                /\ oracle.gzip[fs[file].contents].ok
                /\ oracle.zstd[fs[file].contents].ok

\* every descriptor has the content type of its file's extension, which
\* is not empty; an included file without extension or with an extension
\* without MIME type ends the expansion with UnknownFileExtension
TypedOrFailed ==
    /\ \A r \in Emitted :
          /\ r.content_type # ""
          /\ \E file \in Included :
                /\ r.include_bytes = PathText(file)
                /\ MimeFirstRaw(Unwrap(path_extension(file)))
                      = Some(r.content_type)
    /\ /\ Finished /\ AllReadable
       /\ \E file \in Included : Untyped(file)
       /\ \A file \in Included : ~NonTextExtension(file)
       => /\ phase = "Failed"
          /\ routes = <<>>
          /\ \E file \in Included :
                /\ Untyped(file)
                /\ error = Some(<<"UnknownFileExtension",
                                  path_extension(file)>>)

\* C24 as stated: content typing has no fallback, a missing or unknown
\* extension yields UnknownFileExtension and an extension that is not
\* valid text yields InvalidFileExtension; every descriptor produced has a
\* content type that is not empty.
C24_NoFallback ==
    /\ TypedOrFailed
    /\ /\ Finished /\ AllReadable
       /\ \E file \in Included : NonTextExtension(file)
       /\ \A file \in Included : ~Untyped(file)
       => /\ phase = "Failed"
          /\ routes = <<>>
          /\ \E file \in Included :
                /\ NonTextExtension(file)
                /\ error = Some(<<"InvalidFileExtension", file>>)

\* C24, amended: content typing has no fallback, a missing or unknown
\* extension yields UnknownFileExtension, and a file whose extension is
\* not valid text ends the expansion with FilePathIsNotUtf8, raised for
\* its whole path before content typing is reached; every descriptor
\* produced has a content type that is not empty.
C24_NoFallbackAmended ==
    /\ TypedOrFailed
    /\ /\ Finished /\ AllReadable
       /\ \E file \in Included : NonTextExtension(file)
       /\ \A file \in Included : ~Untyped(file)
       => /\ phase = "Failed"
          /\ routes = <<>>
          /\ error = Some(<<"FilePathIsNotUtf8">>)

\* embed_assets! has met r/y.<not text> beside two files that can be
\* prepared and has failed
C24_Witness ==
    /\ DirectoryMode
    /\ phase = "Failed"
    /\ AllReadable
    /\ NonTextExtension(<<R_dir, Y_raw>>)
    /\ <<R_dir, Y_raw>> \in Included
    /\ <<R_dir, A_js>> \in Included
    /\ error = Some(<<"FilePathIsNotUtf8">>)

\* what makes the preparation of an entry of the glob fail: it leads
\* nowhere, or it is a file to prepare whose path is not Unicode, that is
\* locked, that has no known content type, or that a codec fails on
Faulty(e) ==
    \/ ~canonicalize(e).ok
    \/ /\ ~is_dir(e)
       /\ ~UnderIgnoreDirectory(e)
       /\ \/ ~IsUnicode(PathText(canonicalize(e).val))
          \/ fs[canonicalize(e).val].kind = "locked"
          \/ Untyped(canonicalize(e).val)
          \/ /\ CompressRequested
             /\ fs[canonicalize(e).val].kind = "file"
             /\ \/ ~oracle.gzip[fs[canonicalize(e).val].contents].ok
                \/ ~oracle.zstd[fs[canonicalize(e).val].contents].ok

\* C25: preparation is all-or-nothing: an expansion that failed has one
\* error, no route and nothing left to do, whatever it had prepared before
\* the failing file, and an expansion of embed_assets! that succeeded met
\* no entry whose preparation fails.
C25_AllOrNothing ==
    /\ phase = "Failed" =>
          /\ routes = <<>>
          /\ todo = {}
          /\ IsSome(error)
    /\ DirectoryMode /\ Expanded =>
          /\ IsNone(error)
          /\ \A e \in glob(opts.path) : ~Faulty(e)

\* embed_assets! with compress on has failed on r/d/f.js, which the gzip
\* encoder cannot write, in a tree where r/a.js and r/d/a.js can be
\* prepared
C25_Witness ==
    /\ DirectoryMode
    /\ phase = "Failed"
    /\ error = Some(<<"Gzip", "CompressorWrite">>)
    /\ Faulty(<<R_dir, D_dir, F_js>>)
    /\ ~Faulty(<<R_dir, A_js>>) /\ ~Faulty(<<R_dir, D_dir, A_js>>)
    /\ routes = <<>>

-----------------------------------------------------------------------------
(* Single-file mode *)

\* the responses of the handler static_method_router builds for an emitted
\* call, to a plain request and to one whose If-None-Match is the etag
HandlerResponses(r) ==
    {static_inner(descriptor_of(r), NoExtract.accept_encoding, inm, None) :
        inm \in {None, Some(r.etag)}}

\* C26: the descriptor of embed_asset! has no route path, its cache_busted
\* flag is the cache_bust argument (false when omitted), it is the file
\* itself whatever its name, the rules of embed_assets! are not arguments
\* of the macro, and its handler sends cache-control exactly when
\* cache_bust is true.
C26_SingleFile ==
    ~DirectoryMode =>
        /\ Expanded =>
              /\ Len(routes) = 1
              /\ UnknownKeys(opts.args, {"compress", "cache_bust"}) = {}
              /\ \A r \in Emitted :
                    /\ IsNone(r.path)
                    /\ r.cache_busted = LastArg(opts.args, "cache_bust", FALSE)
                    /\ r.include_bytes = PathText(canonicalize(opts.path).val)
                    /\ r.body = fs[canonicalize(opts.path).val].contents
                    /\ \A response \in HandlerResponses(r) :
                          IsSome(response.headers["cache-control"])
                             <=> LastArg(opts.args, "cache_bust", FALSE)
        /\ ~Expanded => routes = <<>>

\* embed_asset! of r/index.html with cache_bust = true: no route path, the
\* file under its own name, and a handler that sends cache-control
C26_Witness ==
    /\ ~DirectoryMode /\ Expanded
    /\ opts.path = <<R_dir, INDEX_html>>
    /\ LastArg(opts.args, "cache_bust", FALSE)
    /\ \E r \in Emitted :
          /\ IsNone(r.path)
          /\ r.cache_busted
          /\ r.content_type = "text/html"
          /\ \A response \in HandlerResponses(r) :
                IsSome(response.headers["cache-control"])

-----------------------------------------------------------------------------
(* The result of the walk as a function of the tree and the arguments *)

\* what the preparation of one entry gives when it is the only one
\* prepared, from the parsed input and the file system alone
Alone(e) == route_entry(e, valid, canonical_config(valid).val)

\* the parsed input is what the arguments and the file system give
ParsedFromInput == EmbedAssets_parse(opts) = Ok(valid)

\* what each entry of a set gives when prepared alone
PreparedAlone(entries) == [e \in entries |-> Alone(e)]

\* no entry fails, and the routes are those of the entries that give one,
\* one for each
RoutesAre(results) ==
    /\ \A e \in DOMAIN results : results[e].ok
    /\ \A i \in DOMAIN routes :
          \E e \in DOMAIN results : results[e].val = Some(routes[i])
    /\ Len(routes)
          = Cardinality({e \in DOMAIN results : IsSome(results[e].val)})

\* C27: the result of embed_assets! is determined by the directory and
\* the arguments alone: in whatever order the entries are visited, each
\* route pushed is the one its entry gives when prepared alone, the
\* expansion succeeds exactly when no entry fails alone, and it then holds
\* one route for each entry that gives one.
C27_OrderIndependent ==
    /\ DirectoryMode /\ phase \in {"Walking", "Done"} =>
          /\ ParsedFromInput
          /\ RoutesAre(PreparedAlone(glob(opts.path) \ todo))
          /\ Expanded => todo = {}
    /\ DirectoryMode /\ phase = "Failed" /\ valid # <<>> =>
          /\ ParsedFromInput
          /\ canonical_config(valid).ok =>
                \E e \in glob(opts.path) : ~Alone(e).ok

\* the walk has visited r/d/a.js, which a rule cache-busts, before r/a.js,
\* which none does
C27_Witness ==
    /\ DirectoryMode /\ Expanded
    /\ Len(routes) = 2
    /\ routes[1].path = Some(<<"/", "d", "/">> \o A_js)
    /\ routes[1].cache_busted
    /\ routes[2].path = Some(<<"/">> \o A_js)
    /\ ~routes[2].cache_busted

\* C28: in every successful expansion of embed_assets!, with
\* strip_html_ext on or off, no two emitted routes have the same route
\* path.
C28_UniqueRoutes ==
    DirectoryMode /\ Expanded =>
        \A i \in DOMAIN routes :
            \A j \in DOMAIN routes :
                i # j => routes[i].path # routes[j].path

-----------------------------------------------------------------------------
(* Prefixes of rules *)

\* the canonical paths a list argument configures
CanonicalRules(key) ==
    {canonicalize(Configured(key)[i]).val :
        i \in {j \in DOMAIN Configured(key) :
                  canonicalize(Configured(key)[j]).ok}}

\* the text of a rule's path begins the text of the file's path
TextPrefixRule(file, key) ==
    \E rule \in CanonicalRules(key) :
        IsPrefix(PathText(rule), PathText(file))

\* a rule's path is a leading run of whole components of the file's path
ComponentPrefixRule(file, key) ==
    \E rule \in CanonicalRules(key) : IsPrefix(rule, file)

\* C29: a rule for the directory r/ab neither excludes nor cache-busts a
\* file r/abcd/x.js or r/abcd.js: a file whose path only begins with the
\* text of a rule, without having the rule's components as its leading
\* components, is emitted, and is not cache-busted by a cache-busted
\* rule.
C29_SegmentAware ==
    DirectoryMode /\ Expanded =>
        \A file \in FilesUnderRoot :
            /\ /\ TextPrefixRule(file, "ignore_dirs")
               /\ ~ComponentPrefixRule(file, "ignore_dirs")
               => RoutesOf(file) # {}
            /\ /\ TextPrefixRule(file, "cache_busted_paths")
               /\ ~ComponentPrefixRule(file, "cache_busted_paths")
               => \A r \in RoutesOf(file) : ~r.cache_busted

\* cache_busted_paths = ["ab"]: r/ab/a.js is cache-busted, r/abcd/x.js and
\* r/abcd.js are emitted and are not
C29_Witness ==
    /\ DirectoryMode /\ Expanded
    /\ LastArg(opts.args, "ignore_dirs", <<>>) = <<>>
    /\ LastArg(opts.args, "cache_busted_paths", <<>>) = << <<AB_dir>> >>
    /\ \E r \in RoutesOf(<<R_dir, AB_dir, A_js>>) : r.cache_busted
    /\ \E r \in RoutesOf(<<R_dir, ABCD_dir, X_js>>) : ~r.cache_busted
    /\ \E r \in RoutesOf(<<R_dir, ABCD_js>>) : ~r.cache_busted

-----------------------------------------------------------------------------
(* Ignored files are not prepared *)

\* the file an entry of the glob stands for: what it leads to, or the
\* entry itself when it leads nowhere
FileOf(e) == IF canonicalize(e).ok THEN canonicalize(e).val ELSE e

\* the entries that are not directories and whose file cannot be
\* prepared, wherever they lie
Troubled ==
    {e \in glob(opts.path) :
        /\ ~is_dir(e)
        /\ \/ ~canonicalize(e).ok
           \/ ~IsUnicode(PathText(FileOf(e)))
           \/ fs[FileOf(e)].kind = "locked"
           \/ Untyped(FileOf(e))
           \/ /\ CompressRequested
              /\ fs[FileOf(e)].kind = "file"
              /\ \/ ~oracle.gzip[fs[FileOf(e)].contents].ok
                 \/ ~oracle.zstd[fs[FileOf(e)].contents].ok}

\* C30: the ignore check precedes every per-file step: files that cannot
\* be prepared do not make the expansion fail when they lie under an
\* ignored directory, and make it fail when they lie outside every ignored
\* directory.
C30_IgnoredNotPrepared ==
    DirectoryMode /\ Finished /\ valid # <<>> =>
        (Expanded <=>
            \A e \in Troubled : ComponentPrefixRule(FileOf(e), "ignore_dirs"))

====
